---- MODULE Spec2Model ----
(***************************************************************************)
(* Model of onshape_mjcf: the mate graph segmentation (findComponents),    *)
(* the classification of root features (buildDofs) and the kinematic tree  *)
(* assembly of RobotDescription.from_onshape.                              *)
(*                                                                         *)
(* A conversion run is a pipeline over one immutable assembly snapshot.    *)
(* The snapshot (the root assembly's feature dict in its insertion order,  *)
(* the occurrence dict in its insertion order) is the initial state; each  *)
(* phase of from_onshape is one action; an exception ends the run in       *)
(* pc = "error" with the exception recorded in err.                        *)
(***************************************************************************)
EXTENDS Integers, Sequences, FiniteSets, TLC

\* Largest number of features in the root assembly of a snapshot.
MaxFeatures == 3

\* Largest number of occurrence paths in a set handed to findCommonAncestor
\* or taken as a component on its own.
MaxPaths == 4

\* Largest number of inertial samples in a list handed to combineInertials.
MaxSamples == 3

\* Largest number of distinct part references in the components of a run of
\* the mesh naming.
MaxMeshes == 3

\* Largest number written in a literal limit expression.
MaxNumber == 3

-----------------------------------------------------------------------------
(* Generic helpers *)

Range(s) == {s[i] : i \in 1..Len(s)}

Reverse(s) == [i \in 1..Len(s) |-> s[Len(s) + 1 - i]]

Contains(s, x) == \E i \in 1..Len(s) : s[i] = x

\* list.append(x) when x is not yet a key (dict insertion order is kept).
AppendNew(s, x) == IF Contains(s, x) THEN s ELSE Append(s, x)

\* Every ordering of a list.
Orderings(s) ==
  {[i \in 1..Len(s) |-> s[f[i]]] :
     f \in {g \in [1..Len(s) -> 1..Len(s)] :
              \A i, j \in 1..Len(s) : g[i] = g[j] => i = j}}

-----------------------------------------------------------------------------
(* Identity model *)

RootRef == "R"
LinkRef == "L"
ToolRef == "T"

InstancePath(root, elements) == [root |-> root, elements |-> elements]

Abs(elements) == InstancePath(RootRef, elements)

Rel(elements) == InstancePath(LinkRef, elements)

\* FeatureId is a frozen dataclass: it hashes and compares as its own class,
\* never equal to a str.  Keys of Python dicts and sets are modelled with
\* their class so that a membership test between classes is decided as
\* Python decides it.
FeatureId(id) == [cls |-> "FeatureId", val |-> <<id>>]

Str(tokens) == [cls |-> "str", val |-> tokens]

-----------------------------------------------------------------------------
(* The assembly snapshot *)

AssemblyIds == {"s1", "s2", "s3", "s4"}
RootPartIds == {"a", "b"}
LinkPartIds == {"p", "q", "r"}

\* OnshapeData.instances: every instance of every assembly, by InstanceId.
\* Instance names are unique within one assembly (Assembly.from_json asserts
\* it); the link s3 is an instance of the tool assembly and carries the name
\* the root assembly gave to s2.
Instances ==
  [id \in AssemblyIds \cup RootPartIds \cup LinkPartIds |->
     CASE id = "s1" -> [name |-> "base", type |-> "Assembly", ref |-> LinkRef]
       [] id = "s2" -> [name |-> "arm", type |-> "Assembly", ref |-> LinkRef]
       [] id = "s3" -> [name |-> "arm", type |-> "Assembly", ref |-> LinkRef]
       [] id = "s4" -> [name |-> "tool", type |-> "Assembly", ref |-> ToolRef]
       [] id = "a" -> [name |-> "bracket", type |-> "Part", ref |-> "part_a"]
       [] id = "b" -> [name |-> "cover", type |-> "Part", ref |-> "part_b"]
       [] id = "p" -> [name |-> "plate", type |-> "Part", ref |-> "part_p"]
       [] id = "q" -> [name |-> "motor", type |-> "Part", ref |-> "part_q"]
       [] id = "r" -> [name |-> "screw", type |-> "Part", ref |-> "part_r"]]

\* The occurrence list of the snapshot in the order of the JSON document.
OccurrenceList ==
  << Abs(<<"s1">>), Abs(<<"s1", "p">>), Abs(<<"s1", "q">>), Abs(<<"s1", "r">>),
     Abs(<<"s2">>), Abs(<<"s2", "p">>), Abs(<<"s2", "q">>), Abs(<<"s2", "r">>),
     Abs(<<"s4">>), Abs(<<"s4", "s3">>), Abs(<<"s4", "s3", "p">>),
     Abs(<<"s4", "s3", "q">>), Abs(<<"s4", "s3", "r">>),
     Abs(<<"a">>), Abs(<<"b">>) >>

AllOccurrences == Range(OccurrenceList)

\* limitsEnabled is the value of the parameter of that name that
\* OnshapeData.mateParameters holds for the mate.
Mate(id, name, mateType, suppressed, e1, e2) ==
  [type |-> "mate", id |-> id, suppressed |-> suppressed, name |-> name,
   mateType |-> mateType, occs |-> <<e1, e2>>, limitsEnabled |-> FALSE]

LimitedMate(id, name, mateType, e1, e2) ==
  [Mate(id, name, mateType, FALSE, e1, e2) EXCEPT !.limitsEnabled = TRUE]

MateGroup(id, name, suppressed, occs) ==
  [type |-> "mateGroup", id |-> id, suppressed |-> suppressed, name |-> name,
   mateType |-> "NONE", occs |-> occs, limitsEnabled |-> FALSE]

MateConnector(id, name, suppressed, occ) ==
  [type |-> "mateConnector", id |-> id, suppressed |-> suppressed,
   name |-> name, mateType |-> "NONE", occs |-> <<occ>>,
   limitsEnabled |-> FALSE]

\* Features of the sub-assembly every link instantiates; their occurrence
\* paths are relative to the sub-assembly (root = LinkRef).
LinkFeatures ==
  << Mate("L1", <<"weld">>, "FASTENED", FALSE, Rel(<<"p">>), Rel(<<"q">>)),
     MateGroup("L2", <<"screws">>, FALSE, <<Rel(<<"q">>), Rel(<<"r">>)>>) >>

\* The tool assembly holds one link and has no features of its own.
ToolFeatures == <<>>

\* The features a root assembly of the model is drawn from.  Feature names
\* are kept as the list name.split("_") gives.
FeatureMenu ==
  << Mate("F01", <<"dof", "j1">>, "REVOLUTE", FALSE,
          Abs(<<"s1", "p">>), Abs(<<"s2", "p">>)),
     Mate("F02", <<"dof", "j2">>, "REVOLUTE", FALSE,
          Abs(<<"s2", "q">>), Abs(<<"s4", "s3", "p">>)),
     Mate("F03", <<"dof", "j3">>, "REVOLUTE", FALSE,
          Abs(<<"s4", "s3", "q">>), Abs(<<"s1", "q">>)),
     Mate("F04", <<"dof", "j4">>, "REVOLUTE", FALSE,
          Abs(<<"s2", "r">>), Abs(<<"s1", "r">>)),
     Mate("F05", <<"dof", "j5">>, "REVOLUTE", FALSE,
          Abs(<<"s1", "p">>), Abs(<<"s1", "r">>)),
     Mate("F06", <<"dof", "j6">>, "FASTENED", FALSE,
          Abs(<<"s2", "p">>), Abs(<<"s4", "s3", "p">>)),
     Mate("F07", <<"dof", "j7">>, "REVOLUTE", FALSE,
          Abs(<<"s4", "s3", "r">>), Abs(<<"a">>)),
     Mate("F08", <<"closing", "c1">>, "REVOLUTE", FALSE,
          Abs(<<"s1", "p">>), Abs(<<"s1", "q">>)),
     Mate("F09", <<"closing", "c2">>, "REVOLUTE", FALSE,
          Abs(<<"s1", "q">>), Abs(<<"s4", "s3", "q">>)),
     Mate("F10", <<"closing", "c3">>, "FASTENED", FALSE,
          Abs(<<"s2", "q">>), Abs(<<"s4", "s3", "q">>)),
     Mate("F11", <<"weld">>, "FASTENED", FALSE,
          Abs(<<"a">>), Abs(<<"b">>)),
     Mate("F12", <<"weld", "old">>, "FASTENED", TRUE,
          Abs(<<"s2", "p">>), Abs(<<"s4", "s3", "p">>)),
     MateGroup("F13", <<"frame">>, TRUE,
          <<Abs(<<"s1", "p">>), Abs(<<"s2", "p">>), Abs(<<"s4", "s3", "p">>)>>),
     MateGroup("F14", <<"covers">>, FALSE,
          <<Abs(<<"a">>), Abs(<<"b">>)>>),
     MateConnector("F15", <<"site", "tip">>, FALSE, Abs(<<"s4", "s3", "q">>)),
     MateConnector("F16", <<"site", "cam">>, FALSE, Abs(<<"a">>)),
     MateConnector("F17", <<"origin">>, FALSE, Abs(<<"s1", "p">>)) >>

MenuIdx == 1..Len(FeatureMenu)

\* The indices of a set in ascending order.
RECURSIVE Ascending(_)
Ascending(S) ==
  IF S = {} THEN <<>>
  ELSE LET m == CHOOSE x \in S : \A y \in S : x <= y
       IN <<m>> \o Ascending(S \ {m})

\* Feature dicts of at most MaxFeatures features of a menu, in either
\* insertion order.
FeatureListsOf(menu) ==
  UNION { LET asc == [i \in 1..Cardinality(S) |-> menu[Ascending(S)[i]]]
          IN {asc, Reverse(asc)} :
          S \in {T \in SUBSET (1..Len(menu)) : Cardinality(T) <= MaxFeatures} }

FeatureLists == FeatureListsOf(FeatureMenu)

\* The features a root assembly is drawn from when buildDofs is called on
\* its own: the names, mate types and limit settings buildDofs tells apart.
DofMenu ==
  << Mate("D01", <<"dof", "j1">>, "REVOLUTE", FALSE,
          Abs(<<"s1", "p">>), Abs(<<"s2", "p">>)),
     Mate("D02", <<"dof", "j1", "inv">>, "REVOLUTE", FALSE,
          Abs(<<"s2", "q">>), Abs(<<"s4", "s3", "p">>)),
     Mate("D03", <<"dof", "">>, "REVOLUTE", FALSE,
          Abs(<<"s1", "q">>), Abs(<<"s2", "q">>)),
     Mate("D04", <<"dof", "inv">>, "REVOLUTE", FALSE,
          Abs(<<"s1", "r">>), Abs(<<"s2", "r">>)),
     Mate("D05", <<"dof", "inverted">>, "SLIDER", FALSE,
          Abs(<<"s1", "r">>), Abs(<<"s4", "s3", "r">>)),
     Mate("D06", <<"dof", "left", "wheel">>, "REVOLUTE", FALSE,
          Abs(<<"s1", "p">>), Abs(<<"a">>)),
     Mate("D07", <<"dof", "continuous", "spin">>, "CYLINDRICAL", FALSE,
          Abs(<<"s1", "p">>), Abs(<<"b">>)),
     Mate("D08", <<"dof", "lift">>, "SLIDER", FALSE,
          Abs(<<"s2", "p">>), Abs(<<"s4", "s3", "q">>)),
     Mate("D09", <<"dof", "lock">>, "FASTENED", FALSE,
          Abs(<<"s2", "r">>), Abs(<<"s4", "s3", "r">>)),
     Mate("D10", <<"dof", "ball">>, "BALL", FALSE,
          Abs(<<"s2", "p">>), Abs(<<"a">>)),
     LimitedMate("D11", <<"dof", "wheel", "rear">>, "REVOLUTE",
          Abs(<<"s2", "p">>), Abs(<<"b">>)),
     LimitedMate("D12", <<"dof", "elbow">>, "CYLINDRICAL",
          Abs(<<"s1", "q">>), Abs(<<"s4", "s3", "q">>)),
     LimitedMate("D13", <<"dof", "rail", "inv">>, "SLIDER",
          Abs(<<"s1", "q">>), Abs(<<"a">>)),
     Mate("D14", <<"dof", "wheelbase">>, "REVOLUTE", FALSE,
          Abs(<<"s1", "r">>), Abs(<<"b">>)),
     Mate("D15", <<"dof", "j1", "inverted">>, "REVOLUTE", TRUE,
          Abs(<<"s2", "q">>), Abs(<<"a">>)),
     Mate("D16", <<"helper">>, "REVOLUTE", FALSE,
          Abs(<<"s2", "r">>), Abs(<<"b">>)),
     Mate("D17", <<"closing", "c1">>, "REVOLUTE", FALSE,
          Abs(<<"s1", "p">>), Abs(<<"s4", "s3", "p">>)),
     MateGroup("D18", <<"frame">>, FALSE, <<Abs(<<"a">>), Abs(<<"b">>)>>),
     MateConnector("D19", <<"origin">>, FALSE, Abs(<<"s1", "p">>)),
     MateConnector("D20", <<"site", "tip">>, FALSE, Abs(<<"s4", "s3", "q">>)) >>

DofFeatureLists == FeatureListsOf(DofMenu)

OccurrenceOrders == {OccurrenceList, Reverse(OccurrenceList)}

RootNames == {"base", "arm", "robot"}

-----------------------------------------------------------------------------
(* networkx.Graph as used by the program: nodes and neighbours keep their  *)
(* insertion order, an edge between two nodes exists at most once and a    *)
(* second add_edge of the same pair overwrites its data.                   *)

EmptyGraph == [nodes |-> <<>>, adj |-> <<>>, weight |-> <<>>]

add_node(g, n) ==
  IF Contains(g.nodes, n) THEN g
  ELSE [g EXCEPT !.nodes = Append(@, n),
                 !.adj = [m \in (DOMAIN g.adj) \cup {n} |->
                            IF m = n THEN <<>> ELSE g.adj[m]]]

add_nodes_from(g, ns) ==
  LET RECURSIVE Go(_, _)
      Go(h, i) == IF i > Len(ns) THEN h ELSE Go(add_node(h, ns[i]), i + 1)
  IN Go(g, 1)

add_weighted_edge(g, u, v, w) ==
  LET g1 == add_node(add_node(g, u), v)
  IN [g1 EXCEPT
        !.adj = [m \in DOMAIN g1.adj |->
                   IF m = u THEN AppendNew(g1.adj[m], v)
                   ELSE IF m = v THEN AppendNew(g1.adj[m], u)
                   ELSE g1.adj[m]],
        !.weight = [e \in (DOMAIN g1.weight) \cup {{u, v}} |->
                      IF e = {u, v} THEN w ELSE g1.weight[e]]]

add_edge(g, u, v) == add_weighted_edge(g, u, v, "NONE")

\* networkx _plain_bfs: the set of nodes reachable from the source, found
\* level by level.
\* A breadth-first search that stops after the first level.
plain_bfs_one_level(adj, seen, thislevel) ==
  seen \cup UNION {Range(adj[v]) : v \in thislevel}

RECURSIVE plain_bfs(_, _, _)
plain_bfs(adj, seen, thislevel) ==
  IF thislevel = {} THEN seen
  ELSE LET nextlevel == (UNION {Range(adj[v]) : v \in thislevel}) \ seen
       IN plain_bfs(adj, seen \cup nextlevel, nextlevel)

\* networkx.connected_components: one set per not yet seen node, in node
\* insertion order.
RECURSIVE connected_components_from(_, _, _)
connected_components_from(g, i, seen) ==
  IF i > Len(g.nodes) THEN <<>>
  ELSE IF g.nodes[i] \in seen THEN connected_components_from(g, i + 1, seen)
  ELSE LET c == plain_bfs(g.adj, {g.nodes[i]}, {g.nodes[i]})
       IN <<c>> \o connected_components_from(g, i + 1, seen \cup c)

connected_components(g) == connected_components_from(g, 1, {})

number_connected_components(g) == Len(connected_components(g))

\* len(networkx.cycle_basis(g)) of a graph without self-loops: the number
\* of independent cycles, edges - nodes + connected components.
cycle_basis_len(g) ==
  Cardinality(DOMAIN g.weight) - Len(g.nodes) + number_connected_components(g)

\* Python's a < b on sets: proper subset.
SetLt(a, b) == a \subseteq b /\ a # b

\* sorted() of a list of sets: a stable sort that moves an element in front
\* of another only when a < b holds.
RECURSIVE InsertSorted(_, _)
InsertSorted(s, x) ==
  IF s = <<>> THEN <<x>>
  ELSE IF SetLt(x, s[Len(s)])
       THEN Append(InsertSorted(SubSeq(s, 1, Len(s) - 1), x), s[Len(s)])
       ELSE Append(s, x)

RECURSIVE sorted(_)
sorted(s) ==
  IF s = <<>> THEN <<>>
  ELSE InsertSorted(sorted(SubSeq(s, 1, Len(s) - 1)), s[Len(s)])

-----------------------------------------------------------------------------
(* onshape_data/topology.py: findComponents *)

\* OnshapeData.__getitem__(QualifiedRef).archetype.features
AssemblyFeatures(ref, rootFeatures) ==
  IF ref = RootRef THEN rootFeatures
  ELSE IF ref = LinkRef THEN LinkFeatures
  ELSE ToolFeatures

\* The lambda handed to addEdges: the identity for the root assembly,
\* lookup.canonicalizePath for a nested assembly occurrence.
RootCtx == [identity |-> TRUE, occ |-> Abs(<<>>)]

OccCtx(occ) == [identity |-> FALSE, occ |-> occ]

canonicalizePath(ctx, p) ==
  IF ctx.identity THEN p
  ELSE InstancePath(ctx.occ.root, ctx.occ.elements \o p.elements)

\* The edges one feature adds, in the order it adds them.
FeatureEdges(f, ctx) ==
  IF f.type = "mate" /\ f.mateType = "FASTENED"
    THEN << <<canonicalizePath(ctx, f.occs[1]),
              canonicalizePath(ctx, f.occs[2])>> >>
  ELSE IF f.type = "mateGroup"
    THEN [i \in 1..(Len(f.occs) - 1) |->
            <<canonicalizePath(ctx, f.occs[1]),
              canonicalizePath(ctx, f.occs[i + 1])>>]
  ELSE <<>>

RECURSIVE add_edges_from(_, _, _)
add_edges_from(g, edges, i) ==
  IF i > Len(edges) THEN g
  ELSE add_edges_from(add_edge(g, edges[i][1], edges[i][2]), edges, i + 1)

\* feature.id in excluded
IsExcluded(f, excluded) == FeatureId(f.id) \in excluded

RECURSIVE addEdges(_, _, _, _, _)
addEdges(g, features, i, ctx, excluded) ==
  IF i > Len(features) THEN g
  ELSE IF IsExcluded(features[i], excluded)
    THEN addEdges(g, features, i + 1, ctx, excluded)
  ELSE addEdges(add_edges_from(g, FeatureEdges(features[i], ctx), 1),
                features, i + 1, ctx, excluded)

IsAssemblyOccurrence(occ) ==
  Instances[occ.elements[Len(occ.elements)]].type = "Assembly"

RECURSIVE addOccurrenceEdges(_, _, _, _, _)
addOccurrenceEdges(g, rootFeatures, occs, i, excluded) ==
  IF i > Len(occs) THEN g
  ELSE IF ~IsAssemblyOccurrence(occs[i])
    THEN addOccurrenceEdges(g, rootFeatures, occs, i + 1, excluded)
  ELSE addOccurrenceEdges(
         addEdges(g,
                  AssemblyFeatures(
                    Instances[occs[i].elements[Len(occs[i].elements)]].ref,
                    rootFeatures),
                  1, OccCtx(occs[i]), excluded),
         rootFeatures, occs, i + 1, excluded)

segmentationGraph(rootFeatures, occs, excluded) ==
  addOccurrenceEdges(addEdges(EmptyGraph, rootFeatures, 1, RootCtx, excluded),
                     rootFeatures, occs, 1, excluded)

findComponents(rootFeatures, occs, excluded) ==
  sorted(connected_components(segmentationGraph(rootFeatures, occs, excluded)))

\* findCommonAncestor on list(occurrences): the first path cut at the first
\* index where a later path differs from it.
Min(a, b) == IF a <= b THEN a ELSE b

\* The index (from 0) of the first pair of zip(elems[:count], other) that
\* differs, or None when the zip ends without a difference.
None == -1

\* No exception was raised.
NoError == "none"

FirstDifference(elems, count, other) ==
  LET n == Min(Min(count, Len(elems)), Len(other))
      D == {i \in 1..n : elems[i] # other[i]}
  IN IF D = {} THEN None
     ELSE (CHOOSE i \in D : \A j \in D : i <= j) - 1

RECURSIVE CommonCount(_, _, _, _)
CommonCount(elems, count, occs, i) ==
  IF i > Len(occs) THEN count
  ELSE LET d == FirstDifference(elems, count, occs[i].elements)
       IN CommonCount(elems, IF d = None THEN count ELSE Min(d, count),
                      occs, i + 1)

findCommonAncestor(occs) ==
  LET elems == occs[1].elements
  IN InstancePath(occs[1].root,
                  SubSeq(elems, 1, CommonCount(elems, Len(elems), occs, 2)))

-----------------------------------------------------------------------------
(* onshape_data/topology.py: makeOccurranceTree and findStrictSubtrees *)

\* The nodes of the graph of makeOccurranceTree: every prefix, the empty
\* one included, of every path that has an element.
PathPrefixes(paths) ==
  UNION {{SubSeq(paths[i].elements, 1, k) : k \in 0..Len(paths[i].elements)} :
           i \in {j \in 1..Len(paths) : paths[j].elements # <<>>}}

\* The successors the edges graph.add_edge(before, tuple(elems)) give to a
\* node, in the order in which the paths add them.
RECURSIVE successorsOf(_, _, _, _)
successorsOf(paths, node, i, found) ==
  IF i > Len(paths) THEN found
  ELSE LET elems == paths[i].elements
       IN IF Len(elems) > Len(node) /\ SubSeq(elems, 1, Len(node)) = node
            THEN successorsOf(paths, node, i + 1,
                              AppendNew(found, SubSeq(elems, 1, Len(node) + 1)))
            ELSE successorsOf(paths, node, i + 1, found)

\* The DiGraph of makeOccurranceTree before the search: every node with the
\* list of its successors.
occurranceGraph(paths) ==
  [succ |-> [n \in PathPrefixes(paths) |-> successorsOf(paths, n, 1, <<>>)]]

\* networkx.dfs_postorder_nodes
RECURSIVE dfs_postorder_nodes(_, _)
dfs_postorder_nodes(succ, node) ==
  LET RECURSIVE Children(_)
      Children(k) ==
        IF k > Len(succ[node]) THEN <<>>
        ELSE dfs_postorder_nodes(succ, succ[node][k]) \o Children(k + 1)
  IN Children(1) \o <<node>>

\* dfs_tree looks up the source in the graph: a list without a path of at
\* least one element leaves the graph without the node ().
TreeError(paths) ==
  IF \A i \in 1..Len(paths) : paths[i].elements = <<>> THEN "KeyError"
  ELSE NoError

\* networkx.dfs_tree(graph, ()) keeps the nodes the search reaches from ()
\* and the edges it takes: every node of the graph hangs on () by the edges
\* of its own path, and the graph is a tree, so the result has the nodes and
\* the successors of the graph.
makeOccurranceTree(paths) == occurranceGraph(paths)

\* t1_succ[path] != t2_succ[path]: two adjacency views are equal when they
\* have the same successors.
SameSuccessors(super, sub, path) ==
  Range(super.succ[path]) = Range(sub.succ[path])

\* The first loop of findStrictSubtrees.  The loop over the successors of a
\* path only continues itself, so a path with the same successors in both
\* trees is added whatever its successors are.
commonSubtrees(super, sub, rootNode) ==
  LET post == dfs_postorder_nodes(sub.succ, rootNode)
      RECURSIVE Go(_, _)
      Go(common_subtrees, i) ==
        IF i > Len(post) THEN common_subtrees
        ELSE IF ~SameSuccessors(super, sub, post[i])
          THEN Go(common_subtrees, i + 1)
        ELSE Go(common_subtrees \cup {post[i]}, i + 1)
  IN Go({}, 1)

\* A walk that takes every common subtree and excludes nothing.
RECURSIVE commonRootsNoExclusion(_, _, _, _)
commonRootsNoExclusion(sub, common_subtrees, st, path) ==
  LET st1 == IF path \in common_subtrees
               THEN [st EXCEPT !.common_roots = @ \cup {path}]
               ELSE st
      RECURSIVE Children(_, _)
      Children(t, k) ==
        IF k > Len(sub.succ[path]) THEN t
        ELSE Children(commonRootsNoExclusion(sub, common_subtrees, t,
                                             sub.succ[path][k]), k + 1)
  IN Children(st1, 1)

\* The second loop of findStrictSubtrees: a preorder walk of the view of sub
\* that hides the excluded nodes; the successors of a node are read after
\* the loop body has run for the node.
RECURSIVE commonRoots(_, _, _, _)
commonRoots(sub, common_subtrees, st, path) ==
  LET st1 == IF path \in common_subtrees
               THEN [excluded |-> st.excluded \cup Range(sub.succ[path]),
                     common_roots |-> st.common_roots \cup {path}]
               ELSE st
      RECURSIVE Children(_, _)
      Children(t, k) ==
        IF k > Len(sub.succ[path]) THEN t
        ELSE IF sub.succ[path][k] \in t.excluded THEN Children(t, k + 1)
        ELSE Children(commonRoots(sub, common_subtrees, t, sub.succ[path][k]),
                      k + 1)
  IN Children(st1, 1)

findStrictSubtrees(super, sub, rootNode) ==
  commonRoots(sub, commonSubtrees(super, sub, rootNode),
              [excluded |-> {}, common_roots |-> {}], rootNode).common_roots

\* Python's order of InstanceId: the order of the id strings.
IdOrder == <<"a", "b", "p", "q", "r", "s1", "s2", "s3", "s4">>

IdRank(id) == CHOOSE k \in 1..Len(IdOrder) : IdOrder[k] = id

\* a < b on InstancePaths of one root: the order of the element tuples.
PathLt(a, b) ==
  LET x == a.elements
      y == b.elements
      n == IF Len(x) <= Len(y) THEN Len(x) ELSE Len(y)
      D == {i \in 1..n : x[i] # y[i]}
  IN IF D = {} THEN Len(x) < Len(y)
     ELSE LET d == CHOOSE i \in D : \A j \in D : i <= j
          IN IdRank(x[d]) < IdRank(y[d])

\* sorted(parts)
RECURSIVE sortedPaths(_)
sortedPaths(S) ==
  IF S = {} THEN <<>>
  ELSE LET m == CHOOSE x \in S : \A y \in S \ {x} : PathLt(x, y)
       IN <<m>> \o sortedPaths(S \ {m})

\* The part instances of a component.
IsPartOccurrence(occ) ==
  occ.elements # <<>> /\ Instances[occ.elements[Len(occ.elements)]].type = "Part"

componentParts(comp) == sortedPaths({o \in comp : IsPartOccurrence(o)})

\* commonRoots of from_onshape: the strict subtrees of the part tree of a
\* component within the tree of all occurrences, as InstancePaths.
rootInstancesOf(parts, occs) ==
  {Abs(n) : n \in findStrictSubtrees(makeOccurranceTree(occs),
                                     makeOccurranceTree(parts), <<>>)}

-----------------------------------------------------------------------------
(* robot_description.py: buildDofs *)

\* name.startswith(prefix + "_"), on the list name.split("_")
StartsWith(name, prefix) == Len(name) >= 2 /\ name[1] = prefix

\* parts[:-1] when the last token is the inversion token.  parts[-1] of an
\* empty list cannot happen: split("_")[1:] of a name starting with "dof_"
\* has at least one element.
DofNameParts(name) ==
  LET parts == Tail(name)
  IN IF parts[Len(parts)] \in {"inv", "inverted"}
       THEN SubSeq(parts, 1, Len(parts) - 1)
       ELSE parts

\* A test that looks at the name before the inversion token is removed.
IsEmptyNameWithToken(parts) == parts = <<"">>

\* "_".join(parts) == ""
IsEmptyName(parts) == parts = <<>> \/ parts = <<"">>

JointTypeOf(mateType, parts) ==
  IF mateType \in {"REVOLUTE", "CYLINDRICAL"}
    THEN IF Contains(parts, "wheel") \/ Contains(parts, "continuous")
           THEN "continuous" ELSE "revolute"
  ELSE IF mateType = "SLIDER" THEN "prismatic"
  ELSE IF mateType = "FASTENED" THEN "fixed"
  ELSE "unknown"

\* A test for a taken name that never finds one.
HasDofNever(dofs, name) == FALSE

\* name in dofs
HasDof(dofs, name) == \E i \in 1..Len(dofs) : dofs[i].name = name

\* joint.py getLimits: the parameters it reads, or the exception.  With the
\* limits enabled only the branches for revolute and prismatic bind minimum
\* and maximum before they are returned.
getLimits(jointType, limitsEnabled) ==
  IF ~limitsEnabled THEN [err |-> NoError, limits |-> <<>>]
  ELSE IF jointType = "revolute"
    THEN [err |-> NoError, limits |-> <<"limitAxialZMin", "limitAxialZMax">>]
  ELSE IF jointType = "prismatic"
    THEN [err |-> NoError, limits |-> <<"limitZMin", "limitZMax">>]
  ELSE [err |-> "UnboundLocalError", limits |-> <<>>]

\* One iteration of the loop over rootAssembly.features.values().
buildDofsFeature(acc, f, occs) ==
  IF f.suppressed THEN acc
  ELSE IF f.type = "mateConnector" THEN
    IF StartsWith(f.name, "site") THEN
      IF ~Contains(occs, f.occs[1]) THEN [acc EXCEPT !.err = "KeyError"]
      ELSE [acc EXCEPT !.sites =
              Append(@, [name |-> Tail(f.name), parent |-> f.occs[1],
                         parentComp |-> None])]
    ELSE acc
  ELSE IF f.type = "mate" THEN
    IF ~Contains(occs, f.occs[1]) THEN [acc EXCEPT !.err = "KeyError"]
    ELSE IF StartsWith(f.name, "closing") THEN
      [acc EXCEPT !.equalities =
         Append(@, [left |-> f.occs[1], right |-> f.occs[2],
                    leftComp |-> None, rightComp |-> None])]
    ELSE IF StartsWith(f.name, "dof") THEN
      LET parts == DofNameParts(f.name)
          jointType == JointTypeOf(f.mateType, parts)
          lim == IF jointType = "fixed" THEN [err |-> NoError, limits |-> <<>>]
                 ELSE getLimits(jointType, f.limitsEnabled)
      IN IF IsEmptyName(parts) THEN [acc EXCEPT !.err = "unnamed DOF"]
         ELSE IF HasDof(acc.dofs, parts)
           THEN [acc EXCEPT !.err = "AssertionError"]
         ELSE IF jointType = "unknown" THEN [acc EXCEPT !.err = "TypeError"]
         ELSE IF lim.err # NoError THEN [acc EXCEPT !.err = lim.err]
         ELSE [acc EXCEPT !.dofs =
                 Append(@, [name |-> parts, featureId |-> FeatureId(f.id),
                            jointType |-> jointType, limits |-> lim.limits,
                            child |-> f.occs[1], parent |-> f.occs[2],
                            childComp |-> None, parentComp |-> None])]
    ELSE acc
  ELSE [acc EXCEPT !.err = "unknown feature type"]

RECURSIVE buildDofsFrom(_, _, _, _)
buildDofsFrom(acc, features, i, occs) ==
  IF i > Len(features) \/ acc.err # NoError THEN acc
  ELSE buildDofsFrom(buildDofsFeature(acc, features[i], occs),
                     features, i + 1, occs)

buildDofs(features, occs) ==
  buildDofsFrom([dofs |-> <<>>, equalities |-> <<>>, sites |-> <<>>,
                 err |-> NoError],
                features, 1, occs)

\* The keys of the dofs dict, as "x in dofs" sees them.
DictKeys(dofs) == {Str(dofs[i].name) : i \in 1..Len(dofs)}

-----------------------------------------------------------------------------
(* robot_description.py: the phases of RobotDescription.from_onshape *)

\* OnshapeData.__getitem__(InstancePath): the exception it raises, if any.
\* index.instance is elements[-1]; the occurrence dict is keyed by path.
LookupError(path, occs) ==
  IF path.root = RootRef /\ ~Contains(occs, path) THEN "KeyError"
  ELSE IF path.elements = <<>> THEN "IndexError"
  ELSE NoError

\* list(comp): the iteration order of a Python set follows the hashes of
\* its members, which differ from run to run; order is the order of the run.
ListOfSet(S, order) ==
  LET RECURSIVE Go(_)
      Go(i) == IF i > Len(order) THEN <<>>
               ELSE IF order[i] \in S THEN <<order[i]>> \o Go(i + 1)
               ELSE Go(i + 1)
  IN Go(1)

\* The loop "Find component names": one RobotComponent per component, or
\* the first exception.
RECURSIVE nameComponentsFrom(_, _, _, _, _)
nameComponentsFrom(acc, comps, i, occs, order) ==
  IF i > Len(comps) \/ acc.err # NoError THEN acc
  ELSE LET anc == findCommonAncestor(ListOfSet(comps[i], order))
           e == LookupError(anc, occs)
           parts == componentParts(comps[i])
       IN IF e # NoError
            THEN nameComponentsFrom([acc EXCEPT !.err = e], comps, i + 1,
                                    occs, order)
          ELSE IF TreeError(parts) # NoError
            THEN nameComponentsFrom([acc EXCEPT !.err = TreeError(parts)],
                                    comps, i + 1, occs, order)
          ELSE nameComponentsFrom(
                 [acc EXCEPT !.comps =
                    Append(@, [idx |-> i - 1,
                               originalName |->
                                 Instances[anc.elements[Len(anc.elements)]].name,
                               instances |-> comps[i],
                               parts |-> parts,
                               rootInstances |-> rootInstancesOf(parts, occs)])],
                 comps, i + 1, occs, order)

\* pathToComponentIdx: a later component overwrites an earlier entry.
PathToComponentIdx(comps) ==
  [p \in UNION Range(comps) |->
     (CHOOSE i \in 1..Len(comps) :
        p \in comps[i] /\ \A j \in 1..Len(comps) : p \in comps[j] => j <= i)
     - 1]

\* The loop over the DOFs without its test for a DOF to itself.
RECURSIVE mapDofsFromUnchecked(_, _, _)
mapDofsFromUnchecked(acc, i, idx) ==
  IF i > Len(acc.dofs) \/ acc.err # NoError THEN acc
  ELSE LET d == acc.dofs[i]
       IN IF d.child \notin DOMAIN idx \/ d.parent \notin DOMAIN idx
            THEN [acc EXCEPT !.err = "KeyError"]
          ELSE mapDofsFromUnchecked(
                 [acc EXCEPT !.dofs[i] =
                    [d EXCEPT !.childComp = idx[d.child],
                              !.parentComp = idx[d.parent]]],
                 i + 1, idx)

\* The loop "for dof in dofs.values()".
RECURSIVE mapDofsFrom(_, _, _)
mapDofsFrom(acc, i, idx) ==
  IF i > Len(acc.dofs) \/ acc.err # NoError THEN acc
  ELSE LET d == acc.dofs[i]
       IN IF d.child \notin DOMAIN idx \/ d.parent \notin DOMAIN idx
            THEN [acc EXCEPT !.err = "KeyError"]
          ELSE LET m == [d EXCEPT !.childComp = idx[d.child],
                                  !.parentComp = idx[d.parent]]
                   acc1 == [acc EXCEPT !.dofs[i] = m]
               IN IF m.childComp = m.parentComp
                    THEN [acc1 EXCEPT !.err = "DOF to itself"]
                    ELSE mapDofsFrom(acc1, i + 1, idx)

\* The loop "for equality in equalities".  Its test reads the variable dof
\* the previous loop left behind: the last DOF, or no binding at all when
\* there are no DOFs.
RECURSIVE mapEqualitiesFrom(_, _, _, _)
mapEqualitiesFrom(acc, i, idx, dofs) ==
  IF i > Len(acc.equalities) \/ acc.err # NoError THEN acc
  ELSE LET q == acc.equalities[i]
       IN IF q.left \notin DOMAIN idx \/ q.right \notin DOMAIN idx
            THEN [acc EXCEPT !.err = "KeyError"]
          ELSE LET acc1 == [acc EXCEPT
                              !.equalities[i] =
                                 [q EXCEPT !.leftComp = idx[q.left],
                                           !.rightComp = idx[q.right]]]
               IN IF dofs = <<>>
                    THEN [acc1 EXCEPT !.err = "UnboundLocalError"]
                  ELSE IF dofs[Len(dofs)].childComp = dofs[Len(dofs)].parentComp
                    THEN [acc1 EXCEPT !.err = "Equality to itself"]
                  ELSE mapEqualitiesFrom(acc1, i + 1, idx, dofs)

\* The loop "for site in sites".
RECURSIVE assignSitesFrom(_, _, _)
assignSitesFrom(acc, i, idx) ==
  IF i > Len(acc.sites) \/ acc.err # NoError THEN acc
  ELSE IF acc.sites[i].parent \notin DOMAIN idx
    THEN [acc EXCEPT !.err = "KeyError"]
  ELSE assignSitesFrom(
         [acc EXCEPT !.sites[i].parentComp = idx[acc.sites[i].parent]],
         i + 1, idx)

\* graph.add_weighted_edges_from over dofs.values()
RECURSIVE addDofEdges(_, _, _)
addDofEdges(g, dofs, i) ==
  IF i > Len(dofs) THEN g
  ELSE addDofEdges(add_weighted_edge(g, dofs[i].parentComp, dofs[i].childComp,
                                     dofs[i].name),
                   dofs, i + 1)

\* The values of pathToComponentIdx in insertion order, without repeats:
\* components are entered in index order.
ComponentNodes(comps) == [i \in 1..Len(comps) |-> i - 1]

componentGraph(comps, dofs) ==
  addDofEdges(add_nodes_from(EmptyGraph, ComponentNodes(comps)), dofs, 1)

\* networkx.bfs_edges: the tree edges in the order breadth-first search
\* discovers them; neighbours are visited in adjacency order.
\* A search that takes only the first unvisited neighbour of a node.
RECURSIVE bfsChildrenFirstOnly(_, _, _, _, _)
bfsChildrenFirstOnly(g, parent, j, visited, found) ==
  IF j > Len(g.adj[parent]) \/ found # <<>> THEN found
  ELSE LET child == g.adj[parent][j]
       IN IF child \in visited
            THEN bfsChildrenFirstOnly(g, parent, j + 1, visited, found)
            ELSE bfsChildrenFirstOnly(g, parent, j + 1, visited,
                                      Append(found, child))

RECURSIVE bfsChildren(_, _, _, _, _)
bfsChildren(g, parent, j, visited, found) ==
  IF j > Len(g.adj[parent]) THEN found
  ELSE LET child == g.adj[parent][j]
       IN IF child \in visited \cup Range(found)
            THEN bfsChildren(g, parent, j + 1, visited, found)
            ELSE bfsChildren(g, parent, j + 1, visited, Append(found, child))

RECURSIVE bfs_edges(_, _, _, _)
bfs_edges(g, queue, visited, edges) ==
  IF queue = <<>> THEN edges
  ELSE LET parent == Head(queue)
           found == bfsChildren(g, parent, 1, visited, <<>>)
       IN bfs_edges(g, Tail(queue) \o found, visited \cup Range(found),
                    edges \o [k \in 1..Len(found) |-> <<parent, found[k]>>])

\* componentEdges: for every node of the graph the list of its tree edges,
\* in the order of tree.out_edges().
ComponentEdge(u, v, dofName) == [u |-> u, v |-> v, dofName |-> dofName]

bfsComponentEdges(g, root) ==
  LET edges == bfs_edges(g, <<root>>, {root}, <<>>)
      From(u) == LET IsFrom(e) == e[1] = u IN SelectSeq(edges, IsFrom)
  IN [u \in Range(g.nodes) |->
        [k \in 1..Len(From(u)) |->
           ComponentEdge(u, From(u)[k][2], g.weight[{u, From(u)[k][2]}])]]

-----------------------------------------------------------------------------
(* util/inertial.py: InertialData, TransformedInertialData, combineInertials *)

\* Vectors are sequences of numbers, matrices sequences of rows.  Masses and
\* coordinates are integers; a division is kept as the exact quotient
\* Quotient(num, den), so that den = 0 stands for the non-finite array that
\* numpy's division by zero yields (a warning, no exception).
RECURSIVE sum(_)
sum(s) == IF s = <<>> THEN 0 ELSE s[1] + sum(Tail(s))

Eye(n) == [i \in 1..n |-> [j \in 1..n |-> IF i = j THEN 1 ELSE 0]]

Zeros(n) == [i \in 1..n |-> [j \in 1..n |-> 0]]

Dot(a, b) == sum([k \in 1..Len(a) |-> a[k] * b[k]])

Outer(a, b) == [i \in 1..Len(a) |-> [j \in 1..Len(b) |-> a[i] * b[j]]]

VecAdd(a, b) == [k \in 1..Len(a) |-> a[k] + b[k]]

VecSub(a, b) == [k \in 1..Len(a) |-> a[k] - b[k]]

VecScale(x, a) == [k \in 1..Len(a) |-> x * a[k]]

MatAdd(A, B) == [i \in 1..Len(A) |-> VecAdd(A[i], B[i])]

MatSub(A, B) == [i \in 1..Len(A) |-> VecSub(A[i], B[i])]

MatScale(x, A) == [i \in 1..Len(A) |-> VecScale(x, A[i])]

Transpose(A) == [i \in 1..Len(A[1]) |-> [j \in 1..Len(A) |-> A[j][i]]]

MatVec(A, v) == [i \in 1..Len(A) |-> Dot(A[i], v)]

MatMul(A, B) == [i \in 1..Len(A) |-> MatVec(Transpose(B), A[i])]

RECURSIVE VecSum(_)
VecSum(vs) == IF vs = <<>> THEN <<0, 0, 0>> ELSE VecAdd(vs[1], VecSum(Tail(vs)))

RECURSIVE MatSum(_)
MatSum(ms) == IF ms = <<>> THEN Zeros(3) ELSE MatAdd(ms[1], MatSum(Tail(ms)))

Quotient(num, den) == [num |-> num, den |-> den]

InertialData(centroid, mass, inertia) ==
  [centroid |-> centroid, mass |-> mass, inertia |-> inertia]

TransformedInertialData(centroid, mass, inertia, transform) ==
  [centroid |-> centroid, mass |-> mass, inertia |-> inertia,
   transform |-> transform]

IsTransformed(i) == "transform" \in DOMAIN i

\* InertialData.normalize returns the sample itself;
\* TransformedInertialData.normalize applies the 4x4 transform to the
\* centroid and conjugates the tensor by its rotation block.
normalizeRotationOnly(i) ==
  IF IsTransformed(i)
    THEN LET rotation == [r \in 1..3 |-> [c \in 1..3 |-> i.transform[r][c]]]
         IN InertialData(MatVec(rotation, i.centroid), i.mass,
                         MatMul(MatMul(rotation, i.inertia),
                                Transpose(rotation)))
    ELSE i

normalize(i) ==
  IF IsTransformed(i)
    THEN LET rotation == [r \in 1..3 |-> [c \in 1..3 |-> i.transform[r][c]]]
             padded   == MatVec(i.transform, Append(i.centroid, 1))
             centroid == [k \in 1..3 |-> padded[k]]
             inertia  == MatMul(MatMul(rotation, i.inertia),
                                Transpose(rotation))
         IN InertialData(centroid, i.mass, inertia)
    ELSE i

\* len(inertials) == 0
NoInertialsNever(normalized) == FALSE

NoInertials(normalized) == Len(normalized) = 0

\* total_mass = sum(inertial.mass for inertial in inertials)
total_massOfFirst(normalized) == normalized[1].mass

total_mass(normalized) ==
  sum([k \in 1..Len(normalized) |-> normalized[k].mass])

\* sum(inertial.mass * inertial.centroid ...), the numerator of the centroid
weightedCentroidsUnweighted(normalized) ==
  VecSum([k \in 1..Len(normalized) |-> normalized[k].centroid])

weightedCentroids(normalized) ==
  VecSum([k \in 1..Len(normalized) |->
            VecScale(normalized[k].mass, normalized[k].centroid)])

\* inertia_parallel of one sample, times total_mass^2:
\* d = combined_centroid - centroid = (N - M * centroid) / M.
inertia_parallelNoOuter(inertial, N, M) ==
  LET D == VecSub(N, VecScale(M, inertial.centroid))
  IN MatAdd(MatScale(M * M, inertial.inertia),
            MatScale(inertial.mass, MatScale(Dot(D, D), Eye(3))))

inertia_parallel(inertial, N, M) ==
  LET D == VecSub(N, VecScale(M, inertial.centroid))
  IN MatAdd(MatScale(M * M, inertial.inertia),
            MatScale(inertial.mass,
                     MatSub(MatScale(Dot(D, D), Eye(3)), Outer(D, D))))

combineInertials(list) ==
  LET normalized == [k \in 1..Len(list) |-> normalize(list[k])]
  IN IF NoInertials(normalized)
       THEN [err |-> "Empty inertials list provided", value |-> <<>>]
       ELSE LET M == total_mass(normalized)
                N == weightedCentroids(normalized)
                combined_inertia ==
                  MatSum([k \in 1..Len(normalized) |->
                            inertia_parallel(normalized[k], N, M)])
            IN [err   |-> NoError,
                value |-> InertialData(Quotient(N, M), M,
                                       Quotient(combined_inertia, M * M))]

\* Transforms and samples of the runs: the samples of test_inertial.py, a
\* quarter turn about z, and two samples without mass, one of them without
\* transform.
Translation(x, y, z) ==
  <<<<1, 0, 0, x>>, <<0, 1, 0, y>>, <<0, 0, 1, z>>, <<0, 0, 0, 1>>>>

HalfTurnZ == <<<<-1, 0, 0, 0>>, <<0, -1, 0, 0>>, <<0, 0, 1, 0>>, <<0, 0, 0, 1>>>>

QuarterTurnZ == <<<<0, -1, 0, 0>>, <<1, 0, 0, 0>>, <<0, 0, 1, 0>>, <<0, 0, 0, 1>>>>

Diag(a, b, c) == <<<<a, 0, 0>>, <<0, b, 0>>, <<0, 0, c>>>>

SampleMenu ==
  { TransformedInertialData(<<1, 2, 3>>, 5, Diag(1, 2, 3), Eye(4)),
    TransformedInertialData(<<1, 2, 3>>, 5, Diag(1, 2, 3), Translation(1, 0, 0)),
    TransformedInertialData(<<1, 0, 0>>, 4, Eye(3), Eye(4)),
    TransformedInertialData(<<-2, 0, 0>>, 4, Eye(3), Translation(1, 0, 0)),
    TransformedInertialData(<<1, 1, 1>>, 4, Eye(3), Eye(4)),
    TransformedInertialData(<<-2, -2, -2>>, 4, Eye(3), Translation(1, 1, 1)),
    TransformedInertialData(<<1, 2, 3>>, 5, Diag(1, 2, 3), HalfTurnZ),
    TransformedInertialData(<<1, 2, 3>>, 2, Diag(1, 2, 3), QuarterTurnZ),
    TransformedInertialData(<<1, 2, 3>>, 0, Zeros(3), Eye(4)),
    InertialData(<<0, 0, 0>>, 0, Zeros(3)) }

SampleLists == UNION {[1..n -> SampleMenu] : n \in 0..MaxSamples}

-----------------------------------------------------------------------------
(* onshape_data/inertial.py: calculateMassPropertiesByParts *)

PartRefs == {Instances[id].ref : id \in RootPartIds \cup LinkPartIds}

\* The mass of a part that has one; the masses are powers of two, so that a
\* sum tells which parts are in it.
PartMass(ref) ==
  CASE ref = "part_a" -> 1
    [] ref = "part_b" -> 2
    [] ref = "part_p" -> 4
    [] ref = "part_q" -> 8
    [] ref = "part_r" -> 16

\* What get_part_mass_properties reports for each part when the parts of
\* massless have no material: hasMass false and zeros.
MassPropertiesOf(massless) ==
  [ref \in PartRefs |->
     IF ref \in massless
       THEN [hasMass |-> FALSE, mass |-> 0, centroid |-> <<0, 0, 0>>,
             inertia |-> Zeros(3)]
       ELSE [hasMass |-> TRUE, mass |-> PartMass(ref),
             centroid |-> <<1, 0, 0>>, inertia |-> Eye(3)]]

\* The transform of an occurrence of the snapshot: each level of the path
\* moves its content one unit along x.
OccurrenceTransform(occ) == Translation(Len(occ.elements), 0, 0)

\* onshapeMassPropsToInertial(props, frame)
onshapeMassPropsToInertial(props, frame) ==
  TransformedInertialData(props.centroid, props.mass, props.inertia, frame)

\* if not props["hasMass"]: warn(...); return
hasMassAlways(props) == TRUE

hasMass(props) == props.hasMass

\* traverseInstance(instance), without overrides: acc is the list inertials
\* and the exception raised so far; tree is description.instanceTree.
RECURSIVE traverseInstance(_, _, _, _, _)
traverseInstance(acc, instance, tree, occs, props) ==
  IF acc.err # NoError THEN acc
  ELSE IF LookupError(instance, occs) # NoError
    THEN [acc EXCEPT !.err = LookupError(instance, occs)]
  ELSE LET inst == Instances[instance.elements[Len(instance.elements)]]
           RECURSIVE Subs(_, _)
           Subs(a, k) ==
             IF k > Len(tree.succ[instance.elements]) THEN a
             ELSE Subs(traverseInstance(a,
                                        Abs(tree.succ[instance.elements][k]),
                                        tree, occs, props),
                       k + 1)
       IN IF inst.type = "Assembly" THEN Subs(acc, 1)
          ELSE IF ~hasMass(props[inst.ref]) THEN acc
          ELSE [acc EXCEPT !.inertials =
                  Append(@, onshapeMassPropsToInertial(
                              props[inst.ref], OccurrenceTransform(instance)))]

RECURSIVE traverseAll(_, _, _, _, _, _)
traverseAll(acc, roots, k, tree, occs, props) ==
  IF k > Len(roots) THEN acc
  ELSE traverseAll(traverseInstance(acc, roots[k], tree, occs, props),
                   roots, k + 1, tree, occs, props)

\* calculateMassPropertiesByParts(client, data, description, rootInstances):
\* the list handed to combineInertials, the exception and the result.
calculateMassPropertiesByParts(roots, occs, props) ==
  LET walked == traverseAll([inertials |-> <<>>, err |-> NoError], roots, 1,
                            makeOccurranceTree(occs), occs, props)
      result == combineInertials(walked.inertials)
  IN IF walked.err # NoError
       THEN [inertials |-> walked.inertials, err |-> walked.err,
             value |-> <<>>]
       ELSE [inertials |-> walked.inertials, err |-> result.err,
             value |-> result.value]

-----------------------------------------------------------------------------
(* util/__init__.py: formatName; robot_description.py: the mesh naming *)

\* A name is the sequence of its characters.
UpperCase == <<"A", "B", "C", "D", "E", "F", "G", "H", "I", "J", "K", "L", "M",
               "N", "O", "P", "Q", "R", "S", "T", "U", "V", "W", "X", "Y", "Z">>

LowerCase == <<"a", "b", "c", "d", "e", "f", "g", "h", "i", "j", "k", "l", "m",
               "n", "o", "p", "q", "r", "s", "t", "u", "v", "w", "x", "y", "z">>

Digits == <<"0", "1", "2", "3", "4", "5", "6", "7", "8", "9">>

IsDigit(c) == c \in Range(Digits)

\* [\w_\. ]
IsNameChar(c) ==
  c \in Range(UpperCase) \cup Range(LowerCase) \cup Range(Digits)
          \cup {"_", ".", " "}

\* re.fullmatch(r"^([\w_\. ]+)<[0-9]+>$", name): the length of group 1, or 0
\* when the name does not match.
MatchedPrefix(name) ==
  LET n == Len(name)
      Fits(p) == /\ p >= 1 /\ p + 3 <= n
                 /\ name[p + 1] = "<" /\ name[n] = ">"
                 /\ \A k \in 1..p : IsNameChar(name[k])
                 /\ \A k \in (p + 2)..(n - 1) : IsDigit(name[k])
  IN IF \E p \in 1..n : Fits(p) THEN CHOOSE p \in 1..n : Fits(p) ELSE 0

RECURSIVE lstrip(_)
lstrip(name) ==
  IF name # <<>> /\ name[1] = " " THEN lstrip(Tail(name)) ELSE name

strip(name) == Reverse(lstrip(Reverse(lstrip(name))))

lower(name) ==
  [k \in 1..Len(name) |->
     IF name[k] \in Range(UpperCase)
       THEN LowerCase[CHOOSE i \in 1..26 : UpperCase[i] = name[k]]
       ELSE name[k]]

replaceSpaces(name) ==
  [k \in 1..Len(name) |-> IF name[k] = " " THEN "_" ELSE name[k]]

formatName(name) ==
  LET p == MatchedPrefix(name)
      group == IF p > 0 THEN SubSeq(name, 1, p) ELSE name
  IN replaceSpaces(lower(strip(group)))

Mesh(ref, uniqueName, originalName, partHash) ==
  [ref |-> ref, uniqueName |-> uniqueName, originalName |-> originalName,
   partHash |-> partHash]

\* hashlib.sha1(key.encode()).hexdigest(): the digest of the key.
sha1(key) == [sha1 |-> key]

\* partNameCounters is a sequence of [key, n] in dict order.
InCounters(counters, key) == \E i \in 1..Len(counters) : counters[i].key = key

CounterOf(counters, key) ==
  counters[CHOOSE i \in 1..Len(counters) : counters[i].key = key].n

Increment(counters, key) ==
  [i \in 1..Len(counters) |->
     IF counters[i].key = key THEN [counters[i] EXCEPT !.n = @ + 1]
     ELSE counters[i]]

\* f"{uniqueName}_{counter}"
Numbered(uniqueName, counter) == uniqueName \o <<"_", Digits[counter + 1]>>

\* The key whose counter a collision increments.
IncrementedKey(uniqueName, renamed) == renamed

\* One turn of the loop "Calculate mesh naming".
nameMesh(acc, entry) ==
  LET uniqueName == formatName(entry.name)
  IN IF InCounters(acc.counters, uniqueName)
       THEN LET counter == CounterOf(acc.counters, uniqueName)
                renamed == Numbered(uniqueName, counter)
                key     == IncrementedKey(uniqueName, renamed)
            IN IF ~InCounters(acc.counters, key)
                 THEN [acc EXCEPT !.err = "KeyError"]
                 ELSE [acc EXCEPT
                         !.counters = Increment(@, key),
                         !.partMap = Append(@, Mesh(entry.ref, renamed,
                                                    entry.name,
                                                    sha1(entry.ref)))]
       ELSE [acc EXCEPT
               !.counters = Append(@, [key |-> uniqueName, n |-> 1]),
               !.partMap = Append(@, Mesh(entry.ref, uniqueName, entry.name,
                                          sha1(entry.ref)))]

RECURSIVE nameMeshesFrom(_, _, _)
nameMeshesFrom(acc, refs, i) ==
  IF i > Len(refs) \/ acc.err # NoError THEN acc
  ELSE nameMeshesFrom(nameMesh(acc, refs[i]), refs, i + 1)

nameMeshes(refs) ==
  nameMeshesFrom([counters |-> <<>>, partMap |-> <<>>, err |-> NoError],
                 refs, 1)

\* Instance names of parts, as Onshape gives them.
NamePlate1 == <<"P", "l", "a", "t", "e", " ", "<", "1", ">">>

NamePlate2 == <<"p", "l", "a", "t", "e", " ", "<", "2", ">">>

NamePlate3 == <<"P", "L", "A", "T", "E", " ", "<", "1", "0", ">">>

NamePlateNumbered == <<"p", "l", "a", "t", "e", "_", "1">>

NameMotor == <<"M", "o", "t", "o", "r", " ", "<", "1", ">">>

NameMotorMount == <<"M", "o", "t", "o", "r", " ", "m", "o", "u", "n", "t">>

MeshNameMenu == {NamePlate1, NamePlate2, NamePlate3, NamePlateNumbered,
                 NameMotor, NameMotorMount}

\* The order of PartRef: the order of the reference strings.
RefOrder == <<"part_a", "part_b", "part_p", "part_q", "part_r">>

\* sorted(allPartRefs.items()) for the part references of R with the
\* instance names naming.
SortedPartRefs(R, naming) ==
  LET IsIn(ref) == ref \in R
      refs == SelectSeq(RefOrder, IsIn)
  IN [k \in 1..Len(refs) |-> [ref |-> refs[k], name |-> naming[refs[k]]]]

PartRefLists ==
  {SortedPartRefs(R, naming) :
     R \in {X \in SUBSET PartRefs : Cardinality(X) \in 1..MaxMeshes},
     naming \in [PartRefs -> MeshNameMenu]}

-----------------------------------------------------------------------------
(* onshape_data/__init__.py: configuration_parameters and readExpression *)

\* str.split(sep) on a sequence of characters.
RECURSIVE split(_, _)
split(str, sep) ==
  IF \E i \in 1..Len(str) : str[i] = sep
    THEN LET i == CHOOSE k \in 1..Len(str) :
                    str[k] = sep /\ \A j \in 1..(k - 1) : str[j] # sep
         IN <<SubSeq(str, 1, i - 1)>> \o split(SubSeq(str, i + 1, Len(str)), sep)
    ELSE <<str>>

\* kv[1].replace('+', ' ')
replacePlus(str) ==
  [k \in 1..Len(str) |-> IF str[k] = "+" THEN " " ELSE str[k]]

\* config_params as the sequence of its [key, value] entries; a later entry
\* of the same key replaces the earlier one.
RECURSIVE configFrom(_, _, _)
configFrom(acc, parts, i) ==
  IF i > Len(parts) THEN acc
  ELSE LET kv == split(parts[i], "=")
           Other(e) == e.key # kv[1]
       IN IF Len(kv) = 2
            THEN configFrom(Append(SelectSeq(acc, Other),
                                   [key |-> kv[1], value |-> replacePlus(kv[2])]),
                            parts, i + 1)
            ELSE configFrom(acc, parts, i + 1)

configuration_parameters(config) == configFrom(<<>>, split(config, ";"), 1)

HasKey(dict, key) == \E i \in 1..Len(dict) : dict[i].key = key

Get(dict, key) ==
  dict[CHOOSE i \in 1..Len(dict) : dict[i].key = key].value

\* float(text) for a whole number with an optional sign; None for a text
\* float() rejects (ValueError).
RECURSIVE toNumber(_)
toNumber(digits) ==
  IF digits = <<>> THEN 0
  ELSE 10 * toNumber(SubSeq(digits, 1, Len(digits) - 1))
         + ((CHOOSE d \in 1..10 : Digits[d] = digits[Len(digits)]) - 1)

IsNumber(text) ==
  LET body == IF text # <<>> /\ text[1] \in {"-", "+"} THEN Tail(text) ELSE text
  IN body # <<>> /\ \A k \in 1..Len(body) : IsDigit(body[k])

float(text) ==
  IF text[1] = "-" THEN 0 - toNumber(Tail(text))
  ELSE IF text[1] = "+" THEN toNumber(Tail(text))
  ELSE toNumber(text)

\* The values readExpression returns: num / den, times pi when pi is 1, in
\* the given unit.
Quantity(num, den, pi, unit) ==
  [num |-> num, den |-> den, pi |-> pi, unit |-> unit]

Chars_deg == <<"d", "e", "g">>
Chars_rad == <<"r", "a", "d">>
Chars_radian == <<"r", "a", "d", "i", "a", "n">>
Chars_mm == <<"m", "m">>
Chars_cm == <<"c", "m">>
Chars_m == <<"m">>
Chars_in == <<"i", "n">>
Chars_PI == <<"(", "P", "I", ")">>

\* The part of readExpression after the references are resolved.
readUnits(expr) ==
  LET parts == split(expr, " ")
      Failed(e) == [err |-> e, value |-> <<>>]
      Number(unit) ==
        IF IsNumber(parts[1])
          THEN [err |-> NoError,
                value |-> Quantity(float(parts[1]), 1, 0, unit)]
          ELSE Failed("ValueError")
  IN IF Len(parts) < 2 THEN Failed("IndexError")
     ELSE IF parts[2] = Chars_deg
       THEN IF IsNumber(parts[1])
              THEN [err |-> NoError,
                    value |-> Quantity(2 * float(parts[1]), 360, 1, "radian")]
              ELSE Failed("ValueError")
     ELSE IF parts[2] \in {Chars_radian, Chars_rad}
       THEN IF parts[1] = Chars_PI
              THEN [err |-> NoError, value |-> Quantity(1, 1, 1, "radian")]
              ELSE Number("radian")
     ELSE IF parts[2] = Chars_mm THEN Number("millimeter")
     ELSE IF parts[2] = Chars_cm THEN Number("centimeter")
     ELSE IF parts[2] = Chars_m THEN Number("meter")
     ELSE IF parts[2] = Chars_in THEN Number("inch")
     ELSE Failed("NotImplementedError")

\* expression[0:2] == "#"
IsSignedReference(expr) == SubSeq(expr, 1, Min(2, Len(expr))) = <<"#">>

readExpression(expr, config) ==
  LET params == configuration_parameters(config)
      Failed(e) == [err |-> e, value |-> <<>>]
      name1 == Tail(expr)
      expr1 == IF expr[1] = "#" THEN Get(params, name1) ELSE expr
      name2 == SubSeq(expr1, 3, Len(expr1))
  IN IF expr = <<>> THEN Failed("IndexError")
     ELSE IF expr[1] = "#" /\ ~HasKey(params, name1) THEN Failed("KeyError")
     ELSE IF IsSignedReference(expr1)
       THEN IF ~HasKey(params, name2) THEN Failed("KeyError")
            ELSE readUnits(<<"-">> \o Get(params, name2))
     ELSE readUnits(expr1)

\* The configurations and expressions of the runs.
Chars_limit == <<"l", "i", "m", "i", "t">>
Chars_travel == <<"t", "r", "a", "v", "e", "l">>
Chars_turn == <<"t", "u", "r", "n">>

\* "limit=30+deg;travel=10+mm;turn=(PI)+rad"
ConfigurationA ==
  Chars_limit \o <<"=", "3", "0", "+">> \o Chars_deg \o <<";">>
    \o Chars_travel \o <<"=", "1", "0", "+">> \o Chars_mm \o <<";">>
    \o Chars_turn \o <<"=">> \o Chars_PI \o <<"+">> \o Chars_rad

\* "limit=45+deg;travel=2+cm;turn=1+rad"
ConfigurationB ==
  Chars_limit \o <<"=", "4", "5", "+">> \o Chars_deg \o <<";">>
    \o Chars_travel \o <<"=", "2", "+">> \o Chars_cm \o <<";">>
    \o Chars_turn \o <<"=", "1", "+">> \o Chars_rad

Configurations == {ConfigurationA, ConfigurationB}

VariableNames == {Chars_limit, Chars_travel, Chars_turn}

UnitNames == {Chars_deg, Chars_rad, Chars_radian, Chars_mm, Chars_cm, Chars_m,
              Chars_in, <<"f", "t">>}

\* A reference to a variable, a number with a unit, or (PI) rad, each with
\* or without a sign in front.
UnsignedExpressions ==
  {<<"#">> \o name : name \in VariableNames}
    \cup {<<Digits[n + 1], " ">> \o unit : n \in 0..MaxNumber, unit \in UnitNames}
    \cup {Chars_PI \o <<" ">> \o Chars_rad}

Expressions ==
  UnsignedExpressions \cup {<<"-">> \o e : e \in UnsignedExpressions}

-----------------------------------------------------------------------------
(* State *)

VARIABLES
  features,            \* rootAssembly.features, in dict order
  occurrences,         \* data.occurrences, in dict order
  rootName,            \* the rootName argument of from_onshape
  excluded,            \* the excluded argument of findComponents
  pc,                  \* the phase the run is in
  err,                 \* the exception that ended the run
  dofs,                \* dofs.values(), in dict order
  equalities,
  sites,
  components,          \* the list findComponents returned
  robotComponents,
  pathToComponentIdx,
  rootComponentIdx,
  graph,               \* the component graph
  componentEdges,
  ancestor,            \* the result of a call of findCommonAncestor
  rootInstances,       \* the result of a call of findStrictSubtrees
  inertials,           \* the argument of a call of combineInertials
  combined,            \* the result of a call of combineInertials
  massProperties,      \* the mass properties the client reports per part
  allPartRefs,         \* sorted(allPartRefs.items()), with the instance names
  meshes,              \* partMap.values(), in dict order
  fullConfiguration,   \* assembly["root"]["fullConfiguration"]
  expression,          \* the argument of a call of readExpression
  readResult,          \* the result of a call of readExpression
  bodies               \* the body hierarchy buildMJCFBody has emitted

vars == <<features, occurrences, rootName, excluded, pc, err, dofs,
          equalities, sites, components, robotComponents, pathToComponentIdx,
          rootComponentIdx, graph, componentEdges, ancestor, rootInstances,
          inertials, combined, massProperties, allPartRefs, meshes,
          fullConfiguration, expression, readResult, bodies>>

input == <<features, occurrences, massProperties, allPartRefs,
           fullConfiguration, expression>>

\* The variables of the calls of single functions.
aux == <<ancestor, rootInstances, inertials, combined, meshes, readResult,
         bodies>>

NoPath == InstancePath("none", <<>>)

\* Nothing has been computed yet.
UnsetRun ==
  /\ rootName = "unset"
  /\ err = NoError
  /\ dofs = <<>>
  /\ equalities = <<>>
  /\ sites = <<>>
  /\ robotComponents = <<>>
  /\ pathToComponentIdx = <<>>
  /\ rootComponentIdx = None
  /\ graph = EmptyGraph
  /\ componentEdges = <<>>
  /\ ancestor = NoPath
  /\ rootInstances = {}
  /\ combined = <<>>
  /\ massProperties = MassPropertiesOf({})
  /\ allPartRefs = <<>>
  /\ meshes = <<>>
  /\ fullConfiguration = <<>>
  /\ expression = <<>>
  /\ readResult = <<>>
  /\ bodies = <<>>

Unset ==
  /\ UnsetRun
  /\ components = <<>>
  /\ inertials = <<>>

\* A conversion run: RobotDescription.from_onshape(data, rootName).
Init ==
  /\ features \in FeatureLists
  /\ occurrences \in OccurrenceOrders
  /\ excluded = {}
  /\ pc = "buildDofs"
  /\ Unset

Raise(e) == pc' = "error" /\ err' = e

\* dofs, equalities, sites = buildDofs(data)
BuildDofs ==
  /\ pc = "buildDofs"
  /\ \E name \in RootNames : rootName' = name
  /\ LET r == buildDofs(features, occurrences)
     IN IF r.err # NoError
          THEN /\ Raise(r.err)
               /\ UNCHANGED <<dofs, equalities, sites>>
          ELSE /\ pc' = "findComponents"
               /\ dofs' = r.dofs
               /\ equalities' = r.equalities
               /\ sites' = r.sites
               /\ err' = err
  /\ UNCHANGED <<input, aux, excluded, components, robotComponents,
                 pathToComponentIdx, rootComponentIdx, graph, componentEdges>>

\* components = findComponents(data, dofs)
FindComponents ==
  /\ pc = "findComponents"
  /\ excluded' = DictKeys(dofs)
  /\ components' = findComponents(features, occurrences, excluded')
  /\ pc' = "nameComponents"
  /\ UNCHANGED <<input, aux, rootName, err, dofs, equalities, sites,
                 robotComponents, pathToComponentIdx, rootComponentIdx,
                 graph, componentEdges>>

\* The loop that builds robotComponents.
NameComponents ==
  /\ pc = "nameComponents"
  /\ \E order \in OccurrenceOrders :
       LET r == nameComponentsFrom([comps |-> <<>>, err |-> NoError],
                                   components, 1, occurrences, order)
       IN IF r.err # NoError
            THEN Raise(r.err) /\ UNCHANGED robotComponents
            ELSE /\ pc' = "mapDofs"
                 /\ robotComponents' = r.comps
                 /\ err' = err
  /\ UNCHANGED <<input, aux, rootName, excluded, dofs, equalities, sites,
                 components, pathToComponentIdx, rootComponentIdx, graph,
                 componentEdges>>

\* pathToComponentIdx and the loop over the DOFs.
MapDofs ==
  /\ pc = "mapDofs"
  /\ pathToComponentIdx' = PathToComponentIdx(components)
  /\ LET r == mapDofsFrom([dofs |-> dofs, err |-> NoError], 1,
                          pathToComponentIdx')
     IN /\ dofs' = r.dofs
        /\ IF r.err # NoError THEN Raise(r.err)
           ELSE pc' = "mapEqualities" /\ err' = err
  /\ UNCHANGED <<input, aux, rootName, excluded, equalities, sites, components,
                 robotComponents, rootComponentIdx, graph, componentEdges>>

\* The loop over the closing constraints.
MapEqualities ==
  /\ pc = "mapEqualities"
  /\ LET r == mapEqualitiesFrom([equalities |-> equalities, err |-> NoError],
                                1, pathToComponentIdx, dofs)
     IN /\ equalities' = r.equalities
        /\ IF r.err # NoError THEN Raise(r.err)
           ELSE pc' = "assignSites" /\ err' = err
  /\ UNCHANGED <<input, aux, rootName, excluded, dofs, sites, components,
                 robotComponents, pathToComponentIdx, rootComponentIdx, graph,
                 componentEdges>>

\* Assign sites to components.
AssignSites ==
  /\ pc = "assignSites"
  /\ LET r == assignSitesFrom([sites |-> sites, err |-> NoError], 1,
                              pathToComponentIdx)
     IN /\ sites' = r.sites
        /\ IF r.err # NoError THEN Raise(r.err)
           ELSE pc' = "findRoot" /\ err' = err
  /\ UNCHANGED <<input, aux, rootName, excluded, dofs, equalities, components,
                 robotComponents, pathToComponentIdx, rootComponentIdx, graph,
                 componentEdges>>

\* The matching components of "Find root".
RootMatches(comps, name) ==
  {i \in 1..Len(comps) : comps[i].originalName = name}

\* A search for the root that takes the first match and looks no further.
FindRootFirstMatch ==
  /\ pc = "findRoot"
  /\ LET M == RootMatches(robotComponents, rootName)
     IN IF M = {}
          THEN /\ Raise("No root component found by name!")
               /\ UNCHANGED rootComponentIdx
        ELSE /\ rootComponentIdx' =
                  robotComponents[CHOOSE i \in M : \A j \in M : i <= j].idx
             /\ pc' = "buildGraph"
             /\ err' = err
  /\ UNCHANGED <<input, aux, rootName, excluded, dofs, equalities, sites,
                 components, robotComponents, pathToComponentIdx, graph,
                 componentEdges>>

\* Find root.
FindRoot ==
  /\ pc = "findRoot"
  /\ LET M == RootMatches(robotComponents, rootName)
     IN IF Cardinality(M) > 1
          THEN /\ Raise("Root name matches multiple components!")
               /\ UNCHANGED rootComponentIdx
        ELSE IF M = {}
          THEN /\ Raise("No root component found by name!")
               /\ UNCHANGED rootComponentIdx
        ELSE /\ rootComponentIdx' = robotComponents[CHOOSE i \in M : TRUE].idx
             /\ pc' = "buildGraph"
             /\ err' = err
  /\ UNCHANGED <<input, aux, rootName, excluded, dofs, equalities, sites,
                 components, robotComponents, pathToComponentIdx, graph,
                 componentEdges>>

\* Build kinematic tree: the component graph.
BuildGraph ==
  /\ pc = "buildGraph"
  /\ graph' = componentGraph(components, dofs)
  /\ pc' = "checkCycles"
  /\ UNCHANGED <<input, aux, rootName, excluded, err, dofs, equalities, sites,
                 components, robotComponents, pathToComponentIdx,
                 rootComponentIdx, componentEdges>>

\* assert len(nx.cycle_basis(graph)) == 0
CheckCycles ==
  /\ pc = "checkCycles"
  /\ IF cycle_basis_len(graph) # 0 THEN Raise("AssertionError")
     ELSE pc' = "checkConnected" /\ err' = err
  /\ UNCHANGED <<input, aux, rootName, excluded, dofs, equalities, sites,
                 components, robotComponents, pathToComponentIdx,
                 rootComponentIdx, graph, componentEdges>>

\* The phase without its test of the number of connected components.
CheckConnectedSkipped ==
  /\ pc = "checkConnected"
  /\ pc' = "bfsTree"
  /\ UNCHANGED <<input, aux, rootName, excluded, err, dofs, equalities, sites,
                 components, robotComponents, pathToComponentIdx,
                 rootComponentIdx, graph, componentEdges>>

\* if nx.number_connected_components(graph) != 1: raise
CheckConnected ==
  /\ pc = "checkConnected"
  /\ IF number_connected_components(graph) # 1
       THEN Raise("CAD graph can only have 1 connected component")
       ELSE pc' = "bfsTree" /\ err' = err
  /\ UNCHANGED <<input, aux, rootName, excluded, dofs, equalities, sites,
                 components, robotComponents, pathToComponentIdx,
                 rootComponentIdx, graph, componentEdges>>

\* tree = nx.bfs_tree(graph, rootComponentIdx) and the componentEdges dict;
\* the description is returned.
BfsTree ==
  /\ pc = "bfsTree"
  /\ componentEdges' = bfsComponentEdges(graph, rootComponentIdx)
  /\ pc' = "done"
  /\ UNCHANGED <<input, aux, rootName, excluded, err, dofs, equalities, sites,
                 components, robotComponents, pathToComponentIdx,
                 rootComponentIdx, graph>>

Next ==
  \/ BuildDofs
  \/ FindComponents
  \/ NameComponents
  \/ MapDofs
  \/ MapEqualities
  \/ AssignSites
  \/ FindRoot
  \/ BuildGraph
  \/ CheckCycles
  \/ CheckConnected
  \/ BfsTree

Spec == Init /\ [][Next]_vars

-----------------------------------------------------------------------------
(* A direct call findComponents(data, excluded) with a set of FeatureIds *)

ExcludedSets(fs) ==
  {X \in SUBSET {FeatureId(fs[i].id) : i \in 1..Len(fs)} : Cardinality(X) <= 1}

InitSeg ==
  /\ features \in FeatureLists
  /\ occurrences \in OccurrenceOrders
  /\ excluded \in ExcludedSets(features)
  /\ pc = "call"
  /\ Unset

CallFindComponents ==
  /\ pc = "call"
  /\ components' = findComponents(features, occurrences, excluded)
  /\ pc' = "returned"
  /\ UNCHANGED <<input, aux, rootName, excluded, err, dofs, equalities, sites,
                 robotComponents, pathToComponentIdx, rootComponentIdx, graph,
                 componentEdges>>

NextSeg == CallFindComponents

SpecSeg == InitSeg /\ [][NextSeg]_vars

-----------------------------------------------------------------------------
(* A direct call buildDofs(data) *)

InitDofs ==
  /\ features \in DofFeatureLists
  /\ occurrences = OccurrenceList
  /\ excluded = {}
  /\ pc = "callBuildDofs"
  /\ Unset

CallBuildDofs ==
  /\ pc = "callBuildDofs"
  /\ LET r == buildDofs(features, occurrences)
     IN IF r.err # NoError
          THEN /\ Raise(r.err)
               /\ UNCHANGED <<dofs, equalities, sites>>
          ELSE /\ pc' = "builtDofs"
               /\ dofs' = r.dofs
               /\ equalities' = r.equalities
               /\ sites' = r.sites
               /\ err' = err
  /\ UNCHANGED <<input, aux, rootName, excluded, components, robotComponents,
                 pathToComponentIdx, rootComponentIdx, graph, componentEdges>>

NextDofs == CallBuildDofs

SpecDofs == InitDofs /\ [][NextDofs]_vars

-----------------------------------------------------------------------------
(* Direct calls of findCommonAncestor and of findStrictSubtrees on one set  *)
(* of occurrence paths                                                      *)

PathSets ==
  {S \in SUBSET AllOccurrences : Cardinality(S) \in 1..MaxPaths}

InitTree ==
  /\ features = <<>>
  /\ occurrences \in OccurrenceOrders
  /\ excluded = {}
  /\ pc = "callTopology"
  /\ UnsetRun
  /\ inertials = <<>>
  /\ components \in {<<S>> : S \in PathSets}

\* findCommonAncestor(comp); list(comp) is in the order of the run.
CallFindCommonAncestor ==
  /\ pc = "callTopology"
  /\ \E order \in Orderings(sortedPaths(components[1])) :
       ancestor' = findCommonAncestor(order)
  /\ pc' = "ancestorFound"
  /\ UNCHANGED <<input, rootName, excluded, err, dofs, equalities, sites,
                 components, robotComponents, pathToComponentIdx,
                 rootComponentIdx, graph, componentEdges, rootInstances,
                 inertials, combined, meshes,
                 readResult, bodies>>

\* findStrictSubtrees(rootInstanceTree, makeOccurranceTree(parts)) for the
\* parts of the component.
CallFindStrictSubtrees ==
  /\ pc = "callTopology"
  /\ LET parts == componentParts(components[1])
     IN IF TreeError(parts) # NoError
          THEN Raise(TreeError(parts)) /\ UNCHANGED rootInstances
          ELSE /\ rootInstances' = rootInstancesOf(parts, occurrences)
               /\ pc' = "subtreesFound"
               /\ err' = err
  /\ UNCHANGED <<input, rootName, excluded, dofs, equalities, sites,
                 components, robotComponents, pathToComponentIdx,
                 rootComponentIdx, graph, componentEdges, ancestor,
                 inertials, combined, meshes,
                 readResult, bodies>>

NextTree == CallFindCommonAncestor \/ CallFindStrictSubtrees

SpecTree == InitTree /\ [][NextTree]_vars

-----------------------------------------------------------------------------
(* combineInertials called on its own, for every list of samples *)

InitInertial ==
  /\ features = <<>>
  /\ occurrences = OccurrenceList
  /\ excluded = {}
  /\ pc = "callCombineInertials"
  /\ UnsetRun
  /\ components = <<>>
  /\ inertials \in SampleLists

CallCombineInertials ==
  /\ pc = "callCombineInertials"
  /\ LET r == combineInertials(inertials)
     IN IF r.err # NoError
          THEN Raise(r.err) /\ UNCHANGED combined
          ELSE /\ combined' = r.value
               /\ pc' = "combinedInertials"
               /\ err' = err
  /\ UNCHANGED <<input, rootName, excluded, dofs, equalities, sites,
                 components, robotComponents, pathToComponentIdx,
                 rootComponentIdx, graph, componentEdges, ancestor,
                 rootInstances, inertials, meshes,
                 readResult, bodies>>

NextInertial == CallCombineInertials

SpecInertial == InitInertial /\ [][NextInertial]_vars

-----------------------------------------------------------------------------
(* calculateMassPropertiesByParts called for one component that from_onshape
   accepted, for every choice of the parts that have no mass *)

\* The components that the naming loop of from_onshape accepts: they have a
\* part and their members lie under one top-level instance.
AcceptedComponents ==
  {S \in PathSets :
     /\ componentParts(S) # <<>>
     /\ \A o1, o2 \in S : o1.elements # <<>> /\ o1.elements[1] = o2.elements[1]}

InitMass ==
  /\ features = <<>>
  /\ occurrences = OccurrenceList
  /\ rootName = "unset"
  /\ excluded = {}
  /\ pc = "callMassProperties"
  /\ err = NoError
  /\ dofs = <<>>
  /\ equalities = <<>>
  /\ sites = <<>>
  /\ robotComponents = <<>>
  /\ pathToComponentIdx = <<>>
  /\ rootComponentIdx = None
  /\ graph = EmptyGraph
  /\ componentEdges = <<>>
  /\ ancestor = NoPath
  /\ inertials = <<>>
  /\ combined = <<>>
  /\ allPartRefs = <<>>
  /\ meshes = <<>>
  /\ fullConfiguration = <<>>
  /\ expression = <<>>
  /\ readResult = <<>>
  /\ bodies = <<>>
  /\ components \in {<<S>> : S \in AcceptedComponents}
  /\ rootInstances = rootInstancesOf(componentParts(components[1]),
                                     occurrences)
  /\ massProperties \in {MassPropertiesOf(m) : m \in SUBSET PartRefs}

\* comp.rootInstances is a list made from a set; its order is that of the
\* run.
CallCalculateMassPropertiesByParts ==
  /\ pc = "callMassProperties"
  /\ \E roots \in {sortedPaths(rootInstances),
                   Reverse(sortedPaths(rootInstances))} :
       LET r == calculateMassPropertiesByParts(roots, occurrences,
                                               massProperties)
       IN /\ inertials' = r.inertials
          /\ IF r.err # NoError
               THEN Raise(r.err) /\ UNCHANGED combined
               ELSE /\ combined' = r.value
                    /\ pc' = "massComputed"
                    /\ err' = err
  /\ UNCHANGED <<input, rootName, excluded, dofs, equalities, sites,
                 components, robotComponents, pathToComponentIdx,
                 rootComponentIdx, graph, componentEdges, ancestor,
                 rootInstances, meshes,
                 readResult, bodies>>

NextMass == CallCalculateMassPropertiesByParts

SpecMass == InitMass /\ [][NextMass]_vars

-----------------------------------------------------------------------------
(* The mesh naming at the end of from_onshape, for every list of part
   references and instance names.  The part names of the snapshot are
   pairwise different, so the mesh naming of a run of Spec does not fail;
   here the names are drawn from MeshNameMenu. *)

InitMesh ==
  /\ features = <<>>
  /\ occurrences = OccurrenceList
  /\ rootName = "unset"
  /\ excluded = {}
  /\ pc = "nameMeshes"
  /\ err = NoError
  /\ dofs = <<>>
  /\ equalities = <<>>
  /\ sites = <<>>
  /\ components = <<>>
  /\ robotComponents = <<>>
  /\ pathToComponentIdx = <<>>
  /\ rootComponentIdx = None
  /\ graph = EmptyGraph
  /\ componentEdges = <<>>
  /\ ancestor = NoPath
  /\ rootInstances = {}
  /\ inertials = <<>>
  /\ combined = <<>>
  /\ massProperties = MassPropertiesOf({})
  /\ meshes = <<>>
  /\ fullConfiguration = <<>>
  /\ expression = <<>>
  /\ readResult = <<>>
  /\ bodies = <<>>
  /\ allPartRefs \in PartRefLists

NameMeshes ==
  /\ pc = "nameMeshes"
  /\ LET r == nameMeshes(allPartRefs)
     IN IF r.err # NoError
          THEN Raise(r.err) /\ UNCHANGED meshes
          ELSE /\ meshes' = r.partMap
               /\ pc' = "meshesNamed"
               /\ err' = err
  /\ UNCHANGED <<input, rootName, excluded, dofs, equalities, sites,
                 components, robotComponents, pathToComponentIdx,
                 rootComponentIdx, graph, componentEdges, ancestor,
                 rootInstances, inertials, combined,
                 readResult, bodies>>

NextMesh == NameMeshes

SpecMesh == InitMesh /\ [][NextMesh]_vars

-----------------------------------------------------------------------------
(* readExpression called on its own, for every expression and configuration *)

InitRead ==
  /\ features = <<>>
  /\ occurrences = OccurrenceList
  /\ rootName = "unset"
  /\ excluded = {}
  /\ pc = "callReadExpression"
  /\ err = NoError
  /\ dofs = <<>>
  /\ equalities = <<>>
  /\ sites = <<>>
  /\ components = <<>>
  /\ robotComponents = <<>>
  /\ pathToComponentIdx = <<>>
  /\ rootComponentIdx = None
  /\ graph = EmptyGraph
  /\ componentEdges = <<>>
  /\ ancestor = NoPath
  /\ rootInstances = {}
  /\ inertials = <<>>
  /\ combined = <<>>
  /\ massProperties = MassPropertiesOf({})
  /\ allPartRefs = <<>>
  /\ meshes = <<>>
  /\ readResult = <<>>
  /\ bodies = <<>>
  /\ fullConfiguration \in Configurations
  /\ expression \in Expressions

CallReadExpression ==
  /\ pc = "callReadExpression"
  /\ LET r == readExpression(expression, fullConfiguration)
     IN IF r.err # NoError
          THEN Raise(r.err) /\ UNCHANGED readResult
          ELSE /\ readResult' = r.value
               /\ pc' = "expressionRead"
               /\ err' = err
  /\ UNCHANGED <<input, rootName, excluded, dofs, equalities, sites,
                 components, robotComponents, pathToComponentIdx,
                 rootComponentIdx, graph, componentEdges, ancestor,
                 rootInstances, inertials, combined, meshes, bodies>>

NextRead == CallReadExpression

SpecRead == InitRead /\ [][NextRead]_vars

-----------------------------------------------------------------------------
(* to_mjcf_basic.py: buildMJCFBody on the description from_onshape returned *)

\* The features a root assembly is drawn from when the description is
\* emitted: one DOF of every mate type buildDofs gives a joint type.
EmitMenu ==
  << Mate("E01", <<"dof", "j1">>, "REVOLUTE", FALSE,
          Abs(<<"s1", "p">>), Abs(<<"s2", "p">>)),
     LimitedMate("E02", <<"dof", "j2">>, "REVOLUTE",
          Abs(<<"s2", "q">>), Abs(<<"s4", "s3", "p">>)),
     Mate("E03", <<"dof", "wheel", "j3">>, "REVOLUTE", FALSE,
          Abs(<<"s2", "q">>), Abs(<<"s4", "s3", "q">>)),
     Mate("E04", <<"dof", "j4">>, "SLIDER", FALSE,
          Abs(<<"s1", "q">>), Abs(<<"s4", "s3", "q">>)),
     Mate("E05", <<"dof", "j5">>, "FASTENED", FALSE,
          Abs(<<"s1", "r">>), Abs(<<"s2", "r">>)) >>

EmitFeatureLists == FeatureListsOf(EmitMenu)

\* dofName=None
NoDofName == <<>>

\* bd.description.dofs[dofName]
DofNamed(ds, dofName) == ds[CHOOSE i \in 1..Len(ds) : ds[i].name = dofName]

\* match dof.jointType: the case "revolute" passes, every other raises.
JointTypeError(jointType) ==
  IF jointType = "revolute" THEN NoError ELSE "unknown joint type"

\* The joint element of a body: its name and, with limits, its range.
Joint(dof) == [name |-> dof.name, range |-> dof.limits]

NoJoint == <<>>

\* buildMJCFBody(bd, parent, compIdx, dofName, freeJoint): the bodies
\* emitted in the order of their creation, or the first exception.  A body
\* is kept with its component, its joint and the mass of its inertial; the
\* recursion follows componentEdges[compIdx].
RECURSIVE buildMJCFBody(_, _, _, _, _, _)
buildMJCFBody(acc, description, data, compIdx, dofName, freeJoint) ==
  IF acc.err # NoError THEN acc
  ELSE
    LET comp == description.components[compIdx + 1]
        jointErr == IF dofName = NoDofName THEN NoError
                    ELSE JointTypeError(
                           DofNamed(description.dofs, dofName).jointType)
        inertial == calculateMassPropertiesByParts(
                      sortedPaths(comp.rootInstances), data.occurrences,
                      data.massProperties)
        body == [comp |-> compIdx,
                 freeJoint |-> freeJoint,
                 joint |-> IF dofName = NoDofName THEN NoJoint
                           ELSE Joint(DofNamed(description.dofs, dofName)),
                 mass |-> inertial.value.mass]
        edges == description.componentEdges[compIdx]
        RECURSIVE Children(_, _)
        Children(a, k) ==
          IF k > Len(edges) THEN a
          ELSE Children(buildMJCFBody(a, description, data, edges[k].v,
                                      edges[k].dofName, FALSE), k + 1)
    IN IF jointErr # NoError THEN [acc EXCEPT !.err = jointErr]
       ELSE IF inertial.err # NoError THEN [acc EXCEPT !.err = inertial.err]
       ELSE Children([acc EXCEPT !.bodies = Append(@, body)], 1)

\* A conversion run followed by the emission of the body hierarchy.
InitEmit ==
  /\ features \in EmitFeatureLists
  /\ occurrences \in OccurrenceOrders
  /\ excluded = {}
  /\ pc = "buildDofs"
  /\ Unset

\* toMJCFBasic: buildMJCFBody(bd, mjcf.worldBody,
\* description.rootComponentIdx, freeJoint=True)
CallBuildMJCFBody ==
  /\ pc = "done"
  /\ LET r == buildMJCFBody(
                [bodies |-> <<>>, err |-> NoError],
                [dofs |-> dofs, components |-> robotComponents,
                 componentEdges |-> componentEdges],
                [occurrences |-> occurrences,
                 massProperties |-> massProperties],
                rootComponentIdx, NoDofName, TRUE)
     IN IF r.err # NoError
          THEN Raise(r.err) /\ UNCHANGED bodies
          ELSE /\ bodies' = r.bodies
               /\ pc' = "bodiesBuilt"
               /\ err' = err
  /\ UNCHANGED <<input, rootName, excluded, dofs, equalities, sites,
                 components, robotComponents, pathToComponentIdx,
                 rootComponentIdx, graph, componentEdges, ancestor,
                 rootInstances, inertials, combined, meshes, readResult>>

NextEmit == Next \/ CallBuildMJCFBody

SpecEmit == InitEmit /\ [][NextEmit]_vars

-----------------------------------------------------------------------------
(* Vocabulary of the properties *)

\* The occurrence an occurrence path of a nested assembly's feature names.
Under(occ, p) == Abs(occ.elements \o p.elements)

\* The undirected edges a feature stands for: the mated pair of a FASTENED
\* mate, the star of a mate-group.
RigidPairs(f, occ) ==
  IF f.type = "mate" /\ f.mateType = "FASTENED"
    THEN {{Under(occ, f.occs[1]), Under(occ, f.occs[2])}}
  ELSE IF f.type = "mateGroup"
    THEN {{Under(occ, f.occs[1]), Under(occ, f.occs[k])} : k \in 2..Len(f.occs)}
  ELSE {}

\* The occurrences of the link sub-assembly.
IsLinkOccurrence(x) ==
  /\ IsAssemblyOccurrence(x)
  /\ Instances[x.elements[Len(x.elements)]].ref = LinkRef

\* The edges of the features that satisfy Keep, over the root assembly and
\* every occurrence of a nested assembly.
EdgeSet(Keep(_)) ==
  UNION ({RigidPairs(f, Abs(<<>>)) : f \in {g \in Range(features) : Keep(g)}}
         \cup {RigidPairs(f, o) :
                 f \in {g \in Range(LinkFeatures) : Keep(g)},
                 o \in {x \in AllOccurrences : IsLinkOccurrence(x)}})

Neighbours(x, E) == {y \in UNION E : {x, y} \in E}

RECURSIVE Grow(_, _)
Grow(S, E) ==
  LET T == S \cup UNION {Neighbours(x, E) : x \in S}
  IN IF T = S THEN S ELSE Grow(T, E)

SameComponent(p, q) ==
  \E i \in 1..Len(components) : p \in components[i] /\ q \in components[i]

\* The occurrences a chain of one or more edges of E links to p.
LinkedTo(p, E) == Grow(Neighbours(p, E), E)

\* Two occurrences share a component exactly when a chain of E links them.
ComponentsFollow(E) ==
  \A p \in AllOccurrences :
    LET L == LinkedTo(p, E)
    IN \A q \in AllOccurrences : SameComponent(p, q) <=> q \in L

\* The phases of a run that follow the phase named first.
PhasesFromGraph == {"checkCycles", "checkConnected", "bfsTree", "done"}

PhasesFromEqualities ==
  {"mapEqualities", "assignSites", "findRoot", "buildGraph"}
    \cup PhasesFromGraph

\* from_onshape has called findComponents and goes on with its result.
Segmented == pc \in {"nameComponents", "mapDofs"} \cup PhasesFromEqualities

\* The features the call does not skip.
Contributing(f) == FeatureId(f.id) \notin excluded

C2_StableUnderReordering ==
  pc = "nameComponents" =>
    \A fs \in Orderings(features), os \in OccurrenceOrders :
      findComponents(fs, os, excluded) = components

\* C3: no mate feature that buildDofs classified as a DOF or as a closing
\* constraint contributes an edge to the segmentation graph of from_onshape:
\* a FASTENED mate named dof_<name> or closing_<name> does not by itself put
\* its two mated occurrences into one component.
Classified(f) ==
  /\ f.type = "mate"
  /\ ~f.suppressed
  /\ StartsWith(f.name, "dof") \/ StartsWith(f.name, "closing")

Unclassified(f) == ~Classified(f)

C3_ClassifiedMatesExcluded ==
  Segmented =>
    \A p, q \in AllOccurrences :
      SameComponent(p, q) => q \in LinkedTo(p, EdgeSet(Unclassified))

\* C4: a suppressed FASTENED mate contributes no edge to the segmentation
\* graph: two occurrences whose only rigid link is a suppressed mate are
\* never in the same component.
Unsuppressed(f) == ~(f.type = "mate" /\ f.suppressed)

C4_SuppressedMateNoEdge ==
  pc = "returned" =>
    \A p, q \in AllOccurrences :
      SameComponent(p, q) =>
        q \in LinkedTo(p, EdgeSet(LAMBDA f : Contributing(f) /\ Unsuppressed(f)))

\* C5: the components partition the whole occurrence set: every occurrence,
\* also one that takes part in no rigid mate and no mate-group, belongs to
\* exactly one component.
C5_PartitionCoversOccurrences ==
  Segmented =>
    \A o \in AllOccurrences :
      Cardinality({i \in 1..Len(components) : o \in components[i]}) = 1

\* The index of the component that holds an occurrence.
CompOf(p) == (CHOOSE i \in 1..Len(components) : p \in components[i]) - 1

CompIdxs == {i - 1 : i \in 1..Len(components)}

\* C6: from_onshape raises an error for every DOF whose child and parent
\* occurrences are in the same component, and raises it before the component
\* graph is built, validated or traversed.
C6_DofSelfLoopRejected ==
  /\ pc \in PhasesFromEqualities =>
       \A i \in 1..Len(dofs) : ~SameComponent(dofs[i].child, dofs[i].parent)
  /\ err = "DOF to itself" =>
       /\ \E i \in 1..Len(dofs) : SameComponent(dofs[i].child, dofs[i].parent)
       /\ graph = EmptyGraph
       /\ componentEdges = <<>>

\* A run that ended with the self-loop error of a DOF.
C6_Witness ==
  /\ pc = "error"
  /\ err = "DOF to itself"
  /\ \E i \in 1..Len(dofs) : SameComponent(dofs[i].child, dofs[i].parent)

\* C7: from_onshape raises an error for every closing constraint whose left
\* and right occurrences are in the same component, whatever the DOFs are;
\* no returned description has an EqualityConstraint with leftComp equal to
\* rightComp.
C7_EqualitySelfLoopRejected ==
  pc = "done" =>
    \A i \in 1..Len(equalities) :
      /\ equalities[i].leftComp # equalities[i].rightComp
      /\ ~SameComponent(equalities[i].left, equalities[i].right)

\* The undirected links the DOFs of a set of positions make among component
\* indices.
DofLinks(I) == {{CompOf(dofs[i].child), CompOf(dofs[i].parent)} : i \in I}

CompNeighbours(x, E) == {y \in CompIdxs : {x, y} \in E}

RECURSIVE CompGrow(_, _)
CompGrow(S, E) ==
  LET T == S \cup UNION {CompNeighbours(x, E) : x \in S}
  IN IF T = S THEN S ELSE CompGrow(T, E)

\* The DOFs form a cycle among components: some DOF joins two components
\* that the other DOFs already connect (or joins a component to itself).
DofsFormCycle ==
  \E i \in 1..Len(dofs) :
    CompOf(dofs[i].parent) \in
      CompGrow({CompOf(dofs[i].child)}, DofLinks((1..Len(dofs)) \ {i}))

\* C8: from_onshape fails whenever the DOFs form a cycle among components,
\* also when the cycle is made of two DOFs between the same two components;
\* it returns no description for a cyclic component graph.
C8_CyclesRejected == pc = "done" => ~DofsFormCycle

\* The components a walk over DOFs reaches from the root.
ReachableFromRoot == CompGrow({rootComponentIdx}, DofLinks(1..Len(dofs)))

\* buildMJCFBody: the components visited, in order, by the recursion over
\* componentEdges that starts at compIdx.
RECURSIVE buildMJCFBodyVisits(_, _)
buildMJCFBodyVisits(edges, compIdx) ==
  LET RECURSIVE Children(_)
      Children(k) ==
        IF k > Len(edges[compIdx]) THEN <<>>
        ELSE buildMJCFBodyVisits(edges, edges[compIdx][k].v) \o Children(k + 1)
  IN <<compIdx>> \o Children(1)

TreeEdges == UNION {Range(componentEdges[u]) : u \in DOMAIN componentEdges}

C10_RootedTree ==
  pc = "done" =>
    /\ \A e \in TreeEdges : e.v # rootComponentIdx
    /\ \A c \in CompIdxs \ {rootComponentIdx} :
         Cardinality({e \in TreeEdges : e.v = c}) = 1
    /\ Cardinality(TreeEdges) = Len(components) - 1
    /\ \A u \in DOMAIN componentEdges :
         \A j, k \in 1..Len(componentEdges[u]) :
           componentEdges[u][j] = componentEdges[u][k] => j = k
    /\ LET visits == buildMJCFBodyVisits(componentEdges, rootComponentIdx)
       IN /\ Len(visits) = Len(components)
          /\ Range(visits) = CompIdxs

\* A returned description whose root has two children.
C10_Witness ==
  /\ pc = "done"
  /\ Len(components) = 3
  /\ Len(componentEdges[rootComponentIdx]) = 2

\* C11: from_onshape takes as root the one component whose originalName is
\* rootName: a run goes past the root search only with exactly one matching
\* component, whose index is then rootComponentIdx; it ends with an error
\* when no component matches and when more than one matches.
C11_UniqueRootMatch ==
  LET M == RootMatches(robotComponents, rootName)
  IN /\ pc \in {"buildGraph"} \cup PhasesFromGraph =>
          /\ Cardinality(M) = 1
          /\ \A i \in M : rootComponentIdx = robotComponents[i].idx
     /\ err = "Root name matches multiple components!" =>
          Cardinality(M) > 1 /\ rootComponentIdx = None
     /\ err = "No root component found by name!" =>
          M = {} /\ rootComponentIdx = None

\* A run that ended because two components carry the root name.
C11_Witness ==
  /\ pc = "error"
  /\ err = "Root name matches multiple components!"
  /\ Cardinality(RootMatches(robotComponents, rootName)) = 2

\* The non-suppressed mates of the root assembly named dof_...
IsDofMate(f) == f.type = "mate" /\ ~f.suppressed /\ StartsWith(f.name, "dof")

DofMates == {f \in Range(features) : IsDofMate(f)}

\* The name of a DOF as the specification gives it: the tokens after dof_,
\* without a trailing inv or inverted.
DofNameOf(f) ==
  LET n == Len(f.name)
  IN IF f.name[n] \in {"inv", "inverted"} THEN SubSeq(f.name, 2, n - 1)
     ELSE SubSeq(f.name, 2, n)

\* The call of buildDofs has ended, with a result or with an exception.
DofsCalled == pc \in {"builtDofs", "error"}

\* C12: buildDofs fails when two non-suppressed dof_ mates of the root
\* assembly yield the same DOF name after the dof_ prefix and a trailing
\* _inv or _inverted are removed; in a returned DOF map every name stands
\* for exactly one mate feature.
C12_DofNamesUnique ==
  /\ pc = "builtDofs" =>
       /\ \A f, g \in DofMates : DofNameOf(f) = DofNameOf(g) => f = g
       /\ \A i, j \in 1..Len(dofs) :
            (dofs[i].name = dofs[j].name
               \/ dofs[i].featureId = dofs[j].featureId) => i = j
       /\ \A f \in DofMates :
            \E i \in 1..Len(dofs) :
              dofs[i].name = DofNameOf(f) /\ dofs[i].featureId = FeatureId(f.id)
  /\ (pc = "error" /\ err = "AssertionError") =>
       \E f, g \in DofMates : f # g /\ DofNameOf(f) = DofNameOf(g)

\* A call that failed on dof_j1_inv after dof_j1.
C12_Witness ==
  /\ pc = "error"
  /\ err = "AssertionError"
  /\ \E f, g \in DofMates :
       /\ f.name = <<"dof", "j1">>
       /\ g.name = <<"dof", "j1", "inv">>

\* A dof_ mate with nothing after the prefix but, at most, the inversion
\* token: dof_, dof_inv, dof_inverted.
Unnamed(f) == DofNameOf(f) \in {<<>>, <<"">>}

\* C13: buildDofs raises an error for every non-suppressed mate whose name
\* is dof_ followed by an empty name, also when only the inversion token
\* follows the prefix; no returned DOF has an empty name.
C13_UnnamedDofRejected ==
  /\ pc = "builtDofs" =>
       /\ \A f \in DofMates : ~Unnamed(f)
       /\ \A i \in 1..Len(dofs) : dofs[i].name \notin {<<>>, <<"">>}
  /\ (pc = "error" /\ err = "unnamed DOF") => \E f \in DofMates : Unnamed(f)

\* A call that failed on a mate named dof_inv.
C13_Witness ==
  /\ pc = "error"
  /\ err = "unnamed DOF"
  /\ \A f \in DofMates : Unnamed(f) => f.name = <<"dof", "inv">>

\* The joint type the specification gives to a dof_ mate.
SpecJointType(f) ==
  CASE f.mateType \in {"REVOLUTE", "CYLINDRICAL"} ->
         IF \E k \in 1..Len(f.name) : f.name[k] \in {"wheel", "continuous"}
           THEN "continuous" ELSE "revolute"
    [] f.mateType = "SLIDER" -> "prismatic"
    [] f.mateType = "FASTENED" -> "fixed"
    [] OTHER -> "unknown"

\* Every non-suppressed feature is a dof_ mate that has a name of its own,
\* shared with no other mate, and a mate type the specification maps.
OnlyMappedDofMates ==
  \A i \in 1..Len(features) :
    LET f == features[i]
    IN ~f.suppressed =>
         /\ IsDofMate(f)
         /\ ~Unnamed(f)
         /\ SpecJointType(f) # "unknown"
         /\ \A g \in DofMates : DofNameOf(g) = DofNameOf(f) => g = f

\* C14: buildDofs gives every dof_ mate the joint type of its mate type:
\* REVOLUTE and CYLINDRICAL give continuous when a name token is wheel or
\* continuous and revolute otherwise, SLIDER gives prismatic, FASTENED gives
\* fixed; a mate of another type makes buildDofs fail, and a root assembly of
\* mapped dof_ mates only gets one DOF per mate.
C14_JointTypeMapping ==
  /\ pc = "builtDofs" =>
       \A f \in DofMates :
         /\ SpecJointType(f) # "unknown"
         /\ \E i \in 1..Len(dofs) :
              /\ dofs[i].featureId = FeatureId(f.id)
              /\ dofs[i].jointType = SpecJointType(f)
  /\ (DofsCalled /\ OnlyMappedDofMates) => pc = "builtDofs"

\* The features of the root assembly that stand for nothing in the robot:
\* a mate that is neither dof_ nor closing_, a mate connector that is not
\* site_, a mate-group.
Ignorable(f) ==
  /\ ~f.suppressed
  /\ \/ f.type = "mate" /\ ~StartsWith(f.name, "dof")
                         /\ ~StartsWith(f.name, "closing")
     \/ f.type = "mateConnector" /\ ~StartsWith(f.name, "site")
     \/ f.type = "mateGroup"

NotIgnorable(f) == ~Ignorable(f)

CountOf(Test(_)) == Cardinality({i \in 1..Len(features) : Test(features[i])})

\* C15: buildDofs ignores every non-suppressed root feature that is neither
\* a dof_ mate, a closing_ mate nor a site_ connector: such features give no
\* DOF, no constraint and no site, and the call fails only if it also fails
\* on the root assembly without them.
C15_OtherFeaturesIgnored ==
  DofsCalled =>
    /\ pc = "builtDofs" =>
         /\ Len(dofs) = CountOf(IsDofMate)
         /\ Len(equalities) =
              CountOf(LAMBDA f : f.type = "mate" /\ ~f.suppressed
                                  /\ StartsWith(f.name, "closing"))
         /\ Len(sites) =
              CountOf(LAMBDA f : f.type = "mateConnector" /\ ~f.suppressed
                                  /\ StartsWith(f.name, "site"))
    /\ buildDofs(SelectSeq(features, NotIgnorable), occurrences).err = NoError
         => pc = "builtDofs"

\* The occurrence or part path p is q itself or lies below q.
IsPrefix(q, p) == Len(q) <= Len(p) /\ SubSeq(p, 1, Len(q)) = q

Covers(root, occ) == IsPrefix(root.elements, occ.elements)

\* The parts of the component a call of findStrictSubtrees was made for.
PartsOfCall == {o \in components[1] : IsPartOccurrence(o)}

\* C16: every part of a component is equal to or below exactly one node
\* that findStrictSubtrees returns, and no returned node is above another:
\* a sum over the returned nodes meets every part of the component once.
C16_PartsCoveredOnce ==
  pc = "subtreesFound" =>
    /\ \A p \in PartsOfCall :
         Cardinality({r \in rootInstances : Covers(r, p)}) = 1
    /\ \A r1, r2 \in rootInstances : Covers(r1, r2) => r1 = r2

\* A call for the three parts of the link of the tool and the part a: the
\* tool as a whole and the part are returned.
C16_Witness ==
  /\ pc = "subtreesFound"
  /\ Cardinality(PartsOfCall) = 4
  /\ rootInstances = {Abs(<<"s4">>), Abs(<<"a">>)}

\* C17: no node that findStrictSubtrees returns has, at any depth below it
\* in the tree of all occurrences, an occurrence that is not in the part
\* tree of the component.
C17_NoForeignInstanceBelowRoot ==
  pc = "subtreesFound" =>
    \A r \in rootInstances :
      \A o \in AllOccurrences :
        Covers(r, o) => \E p \in PartsOfCall : Covers(o, p)

\* The longest path that is a prefix of every path of a set.
LongestCommonPrefix(S) ==
  LET first == (CHOOSE o \in S : TRUE).elements
      Common == {k \in 0..Len(first) :
                   \A o \in S : IsPrefix(SubSeq(first, 1, k), o.elements)}
  IN SubSeq(first, 1, CHOOSE k \in Common : \A j \in Common : j <= k)

\* C18: for every non-empty set of occurrence paths of one root
\* findCommonAncestor returns the longest path that is a prefix of every
\* path of the set, in whatever order the set is iterated, also when one
\* path of the set is a proper prefix of another.
C18_LongestCommonPrefix ==
  pc = "ancestorFound" =>
    ancestor = Abs(LongestCommonPrefix(components[1]))

\* The sum of the masses of the samples of a list, as they were handed in.
RECURSIVE SumOfMasses(_)
SumOfMasses(list) ==
  IF list = <<>> THEN 0 ELSE list[1].mass + SumOfMasses(Tail(list))

CombineCalled == pc # "callCombineInertials"

\* C19: for every non-empty list of inertial samples combineInertials
\* returns, and the mass of its result is the sum of the samples' masses,
\* whatever their centroids, tensors and transforms.
C19_MassIsSumOfMasses ==
  (CombineCalled /\ inertials # <<>>) =>
    /\ pc = "combinedInertials"
    /\ combined.mass = SumOfMasses(inertials)

\* Three samples of three different masses under three different
\* transforms, one of them without transform and without mass.
C19_Witness ==
  /\ pc = "combinedInertials"
  /\ Len(inertials) = 3
  /\ {inertials[k].mass : k \in 1..3} = {0, 2, 4}
  /\ \E k \in 1..3 : ~IsTransformed(inertials[k])
  /\ \E k \in 1..3 : IsTransformed(inertials[k])
                       /\ inertials[k].transform = QuarterTurnZ
  /\ combined.mass = 6

\* C20: combineInertials called with an empty list raises an error and
\* returns no InertialData.
C20_EmptyListRaises ==
  (CombineCalled /\ inertials = <<>>) =>
    /\ pc = "error"
    /\ err = "Empty inertials list provided"
    /\ combined = <<>>

C20_Witness ==
  /\ inertials = <<>>
  /\ pc = "error"
  /\ err = "Empty inertials list provided"


\* A quotient of the result is the finite array v.
VecIs(q, v) == q.den # 0 /\ q.num = VecScale(q.den, v)

MatIs(q, A) == q.den # 0 /\ q.num = MatScale(q.den, A)

\* combineInertials returned for a list of the one sample x.
SingleSample == pc = "combinedInertials" /\ Len(inertials) = 1

IdentityTransform(x) == IsTransformed(x) /\ x.transform = Eye(4)

Reproduces(x) ==
  /\ combined.mass = x.mass
  /\ VecIs(combined.centroid, x.centroid)
  /\ MatIs(combined.inertia, x.inertia)

\* C21, as stated: combineInertials applied to a single sample whose
\* transform is the identity returns exactly that sample's mass, centroid
\* and inertia tensor.
C21_SingleIdentityReproduces ==
  (SingleSample /\ IdentityTransform(inertials[1])) =>
    Reproduces(inertials[1])

\* C21, amended: combineInertials applied to a single sample of non-zero
\* mass whose transform is the identity returns that sample's mass,
\* centroid and inertia tensor.
C21_SingleIdentityReproducesWithMass ==
  (SingleSample /\ IdentityTransform(inertials[1])
     /\ inertials[1].mass # 0) =>
    Reproduces(inertials[1])

\* The sample of test_combineInertials_single_inertial.
C21_Witness ==
  /\ SingleSample
  /\ inertials[1] = TransformedInertialData(<<1, 2, 3>>, 5, Diag(1, 2, 3),
                                            Eye(4))
  /\ combined.mass = 5
  /\ VecIs(combined.centroid, <<1, 2, 3>>)
  /\ MatIs(combined.inertia, Diag(1, 2, 3))

\* The rotation block R and the translation t of a 4x4 transform, and what
\* they make of a point and of a tensor, entry by entry.
RotationOf(T) == <<<<T[1][1], T[1][2], T[1][3]>>,
                   <<T[2][1], T[2][2], T[2][3]>>,
                   <<T[3][1], T[3][2], T[3][3]>>>>

TranslationOf(T) == <<T[1][4], T[2][4], T[3][4]>>

Moved(R, t, c) ==
  [i \in 1..3 |-> R[i][1] * c[1] + R[i][2] * c[2] + R[i][3] * c[3] + t[i]]

Conjugated(R, I) ==
  [i \in 1..3 |-> [j \in 1..3 |->
     sum([n \in 1..9 |->
            LET k == ((n - 1) \div 3) + 1
                l == ((n - 1) % 3) + 1
            IN R[i][k] * I[k][l] * R[j][l]])]]

IsPureTranslation(T) == RotationOf(T) = Eye(3)

IsPureRotation(T) == TranslationOf(T) = <<0, 0, 0>>

TransformsSample(x) ==
  LET R == RotationOf(x.transform)
      t == TranslationOf(x.transform)
  IN /\ combined.mass = x.mass
     /\ VecIs(combined.centroid, Moved(R, t, x.centroid))
     /\ MatIs(combined.inertia, Conjugated(R, x.inertia))
     /\ IsPureTranslation(x.transform) =>
          /\ VecIs(combined.centroid, VecAdd(x.centroid, t))
          /\ MatIs(combined.inertia, x.inertia)
     /\ IsPureRotation(x.transform) =>
          VecIs(combined.centroid, MatVec(R, x.centroid))

\* C22, as stated: combineInertials applied to a single sample with rigid
\* transform T (rotation block R, translation t) returns the sample's mass
\* unchanged, centroid R*c + t and inertia R*I*R^T; a pure translation
\* shifts the centroid by t and leaves the tensor unchanged, a pure
\* rotation rotates the centroid and conjugates the tensor.
C22_SingleTransformed ==
  (SingleSample /\ IsTransformed(inertials[1])) =>
    TransformsSample(inertials[1])

\* C22, amended: the same for a single sample of non-zero mass.
C22_SingleTransformedWithMass ==
  (SingleSample /\ IsTransformed(inertials[1]) /\ inertials[1].mass # 0) =>
    TransformsSample(inertials[1])

\* A quarter turn about z takes (1, 2, 3) to (-2, 1, 3) and diag(1, 2, 3)
\* to diag(2, 1, 3).
C22_Witness ==
  /\ SingleSample
  /\ IsTransformed(inertials[1])
  /\ inertials[1].transform = QuarterTurnZ
  /\ combined.mass = 2
  /\ VecIs(combined.centroid, <<-2, 1, 3>>)
  /\ MatIs(combined.inertia, Diag(2, 1, 3))

\* A sample as normalize places it: its centroid moved and its tensor
\* conjugated by its transform, if it has one.
PlacedCentroid(x) ==
  IF IsTransformed(x)
    THEN Moved(RotationOf(x.transform), TranslationOf(x.transform),
               x.centroid)
    ELSE x.centroid

PlacedInertia(x) ==
  IF IsTransformed(x)
    THEN Conjugated(RotationOf(x.transform), x.inertia)
    ELSE x.inertia

\* The k-th coordinate of the sum of mass times placed centroid.
RECURSIVE MassMoment(_, _)
MassMoment(list, k) ==
  IF list = <<>> THEN 0
  ELSE list[1].mass * PlacedCentroid(list[1])[k] + MassMoment(Tail(list), k)

\* Entry (i, j) of M^2 times the tensor of sample x shifted to the centroid
\* N / M by the parallel-axis term m*((d.d)*Identity - d(x)d), d = N/M - c.
ShiftedEntry(x, N, M, i, j) ==
  LET c == PlacedCentroid(x)
      D == <<N[1] - M * c[1], N[2] - M * c[2], N[3] - M * c[3]>>
      dd == D[1] * D[1] + D[2] * D[2] + D[3] * D[3]
  IN M * M * PlacedInertia(x)[i][j]
       + x.mass * ((IF i = j THEN dd ELSE 0) - D[i] * D[j])

RECURSIVE ShiftedSum(_, _, _, _, _)
ShiftedSum(list, N, M, i, j) ==
  IF list = <<>> THEN 0
  ELSE ShiftedEntry(list[1], N, M, i, j) + ShiftedSum(Tail(list), N, M, i, j)

\* The result is the mass-weighted average centroid N / M and the sum of
\* the shifted tensors, both finite.
IsWeightedCombination(list) ==
  LET M == SumOfMasses(list)
      N == <<MassMoment(list, 1), MassMoment(list, 2), MassMoment(list, 3)>>
  IN /\ combined.mass = M
     /\ combined.centroid.den # 0
     /\ \A k \in 1..3 :
          combined.centroid.num[k] * M = N[k] * combined.centroid.den
     /\ combined.inertia.den # 0
     /\ \A i, j \in 1..3 :
          combined.inertia.num[i][j] * M * M
            = ShiftedSum(list, N, M, i, j) * combined.inertia.den

\* Two samples of mass 4 and identity tensor placed at c1 and c2.
TwoUnitTensorsAt(c1, c2) ==
  /\ Len(inertials) = 2
  /\ \A k \in 1..2 : inertials[k].mass = 4 /\ inertials[k].inertia = Eye(3)
  /\ {PlacedCentroid(inertials[1]), PlacedCentroid(inertials[2])} = {c1, c2}
  /\ c1 # c2

ResultIs(mass, centroid, inertia) ==
  /\ combined.mass = mass
  /\ VecIs(combined.centroid, centroid)
  /\ MatIs(combined.inertia, inertia)

\* C23, as stated: combineInertials of several samples returns the mass-weighted
\* average centroid and the sum of the samples' tensors each shifted to that
\* centroid by the parallel-axis term; two mass-4 identity-tensor samples
\* placed at (1,1,1) and (-1,-1,-1) give mass 8, centroid (0,0,0) and
\* inertia [[18,-8,-8],[-8,18,-8],[-8,-8,18]], and placed at (1,0,0) and
\* (-1,0,0) they give inertia diag(2,10,10).
C23_WeightedCombination ==
  (pc = "combinedInertials" /\ Len(inertials) >= 2) =>
    /\ IsWeightedCombination(inertials)
    /\ TwoUnitTensorsAt(<<1, 1, 1>>, <<-1, -1, -1>>) =>
         ResultIs(8, <<0, 0, 0>>,
                  <<<<18, -8, -8>>, <<-8, 18, -8>>, <<-8, -8, 18>>>>)
    /\ TwoUnitTensorsAt(<<1, 0, 0>>, <<-1, 0, 0>>) =>
         ResultIs(8, <<0, 0, 0>>, Diag(2, 10, 10))

\* C23, amended: the same for several samples whose total mass is not zero.
C23_WeightedCombinationWithMass ==
  (pc = "combinedInertials" /\ Len(inertials) >= 2
     /\ SumOfMasses(inertials) # 0) =>
    /\ IsWeightedCombination(inertials)
    /\ TwoUnitTensorsAt(<<1, 1, 1>>, <<-1, -1, -1>>) =>
         ResultIs(8, <<0, 0, 0>>,
                  <<<<18, -8, -8>>, <<-8, 18, -8>>, <<-8, -8, 18>>>>)
    /\ TwoUnitTensorsAt(<<1, 0, 0>>, <<-1, 0, 0>>) =>
         ResultIs(8, <<0, 0, 0>>, Diag(2, 10, 10))

\* The samples of test_combineInertials_multiple_inertials, the second of
\* each pair placed by a translation.
C23_Witness ==
  /\ pc = "combinedInertials"
  /\ TwoUnitTensorsAt(<<1, 1, 1>>, <<-1, -1, -1>>)
  /\ inertials[2].transform = Translation(1, 1, 1)
  /\ combined.mass = 8
  /\ combined.inertia.num[1][2] = -8 * combined.inertia.den

\* The occurrences of parts at or below the root instances of the call.
PartsBelowRoots ==
  {o \in AllOccurrences :
     IsPartOccurrence(o) /\ \E r \in rootInstances : Covers(r, o)}

PartRefOf(o) == Instances[o.elements[Len(o.elements)]].ref

MassBearing == {o \in PartsBelowRoots : massProperties[PartRefOf(o)].hasMass}

RECURSIVE MassOfParts(_)
MassOfParts(S) ==
  IF S = {} THEN 0
  ELSE LET o == CHOOSE x \in S : TRUE
       IN massProperties[PartRefOf(o)].mass + MassOfParts(S \ {o})

MassCalled == pc # "callMassProperties"

\* C24: calculateMassPropertiesByParts over a component's root instances
\* proceeds when some but not all parts report hasMass false, and the mass
\* of its result is the sum over the mass-bearing parts; when every part
\* reports hasMass false it raises an error and returns no body.
C24_MassOfMassBearingParts ==
  MassCalled =>
    /\ MassBearing # {} =>
         /\ pc = "massComputed"
         /\ combined.mass = MassOfParts(MassBearing)
    /\ MassBearing = {} =>
         /\ pc = "error"
         /\ err = "Empty inertials list provided"
         /\ combined = <<>>

\* Of the three parts of a link two have a mass (4 and 16), one has none.
C24_Witness ==
  /\ pc = "massComputed"
  /\ Cardinality(PartsBelowRoots) = 3
  /\ Cardinality(MassBearing) = 2
  /\ combined.mass = 20

\* Every part of the component is without mass.
C24_WitnessNoMass ==
  /\ pc = "error"
  /\ PartsBelowRoots # {}
  /\ MassBearing = {}

MeshesCalled == pc # "nameMeshes"

\* C25: the mesh naming returns one entry per distinct part reference and
\* no two entries have the same uniqueName, also when several part
\* references have instances whose formatted names are equal.
C25_UniqueMeshNames ==
  MeshesCalled =>
    /\ pc = "meshesNamed"
    /\ Len(meshes) = Len(allPartRefs)
    /\ \A k \in 1..Len(allPartRefs) : meshes[k].ref = allPartRefs[k].ref
    /\ \A i, j \in 1..Len(meshes) :
         i # j => meshes[i].uniqueName # meshes[j].uniqueName

\* The limits the specification gives to a dof_ mate of a joint type that
\* has limits: none unless limitsEnabled is true, else the pair of the
\* axial parameters for a rotational joint and of the z parameters for a
\* prismatic one.
SpecLimits(f) ==
  IF ~f.limitsEnabled THEN <<>>
  ELSE IF SpecJointType(f) = "prismatic" THEN <<"limitZMin", "limitZMax">>
  ELSE <<"limitAxialZMin", "limitAxialZMax">>

\* C26: for every joint type that buildDofs passes to getLimits (revolute,
\* continuous, prismatic) getLimits returns: no limits when limitsEnabled is
\* not true, else the pair read from limitAxialZMin and limitAxialZMax for a
\* rotational joint and from limitZMin and limitZMax for a prismatic joint.
C26_LimitsOfJointType ==
  /\ DofsCalled => err # "UnboundLocalError"
  /\ pc = "builtDofs" =>
       \A f \in DofMates :
         SpecJointType(f) \in {"revolute", "continuous", "prismatic"} =>
           \E i \in 1..Len(dofs) :
             /\ dofs[i].featureId = FeatureId(f.id)
             /\ dofs[i].limits = SpecLimits(f)

\* The value each configuration gives to each variable: a number and a
\* unit, or pi radians.
ConfiguredValue(config, name) ==
  CASE config = ConfigurationA /\ name = Chars_limit -> Quantity(60, 360, 1, "radian")
    [] config = ConfigurationA /\ name = Chars_travel -> Quantity(10, 1, 0, "millimeter")
    [] config = ConfigurationA /\ name = Chars_turn -> Quantity(1, 1, 1, "radian")
    [] config = ConfigurationB /\ name = Chars_limit -> Quantity(90, 360, 1, "radian")
    [] config = ConfigurationB /\ name = Chars_travel -> Quantity(2, 1, 0, "centimeter")
    [] config = ConfigurationB /\ name = Chars_turn -> Quantity(1, 1, 0, "radian")

Negated(q) == [q EXCEPT !.num = 0 - @]

ExpressionCalled == pc # "callReadExpression"

\* C27: readExpression resolves an expression that is a reference to a
\* named configuration variable (#name) to that variable's configured value,
\* and a signed reference (-#name) to the negation of that value.
C27_ReferencesResolved ==
  ExpressionCalled =>
    \A name \in VariableNames :
      /\ expression = <<"#">> \o name =>
           /\ pc = "expressionRead"
           /\ readResult = ConfiguredValue(fullConfiguration, name)
      /\ expression = <<"-", "#">> \o name =>
           /\ pc = "expressionRead"
           /\ readResult = Negated(ConfiguredValue(fullConfiguration, name))

\* The places (u, k) of the ComponentEdges that carry the name of a DOF.
EdgesNamed(name) ==
  {<<u, k>> \in UNION {{u} \X (1..Len(componentEdges[u])) :
                         u \in DOMAIN componentEdges} :
     componentEdges[u][k].dofName = name}

\* C28: in every description from_onshape returns each DOF is the dofName of
\* exactly one ComponentEdge, and each ComponentEdge(u, v, dofName) names a
\* DOF whose parentComp and childComp are the two components u and v; no
\* DOF is left out of the kinematic tree.
C28_DofsAreTreeEdges ==
  pc = "done" =>
    /\ \A i \in 1..Len(dofs) : Cardinality(EdgesNamed(dofs[i].name)) = 1
    /\ \A e \in TreeEdges :
         \E i \in 1..Len(dofs) :
           /\ dofs[i].name = e.dofName
           /\ {dofs[i].parentComp, dofs[i].childComp} = {e.u, e.v}

\* The loop that names the components raised an exception: the components
\* are found and no RobotComponent is kept.
NamingFailed == pc = "error" /\ components # <<>> /\ robotComponents = <<>>

\* The instance at the nearest common ancestor of the members of a
\* component; the root assembly itself when no instance is above them all.
NearestCommonInstance(comp) ==
  LET anc == LongestCommonPrefix(comp)
  IN IF anc = <<>> THEN RootRef ELSE anc[Len(anc)]

\* C29: from_onshape names every component after the instance at the
\* nearest common ancestor of its members and does not fail in doing so,
\* whether the component has a single member, members below one
\* sub-assembly, or members below different top-level instances, whose
\* common ancestor is the root assembly (the empty path).
C29_EveryComponentNamed ==
  /\ NamingFailed => \E i \in 1..Len(components) :
                       componentParts(components[i]) = <<>>
  /\ robotComponents # <<>> =>
       /\ Len(robotComponents) = Len(components)
       /\ \A i \in 1..Len(components) :
            /\ NearestCommonInstance(components[i]) # RootRef
            /\ robotComponents[i].originalName
                 = Instances[NearestCommonInstance(components[i])].name

\* The DOFs that label an edge of the kinematic tree.
TreeDofs ==
  {i \in 1..Len(dofs) : \E e \in TreeEdges : e.dofName = dofs[i].name}

\* C30: every joint type buildDofs assigns (revolute, continuous, prismatic,
\* fixed) is accepted by buildMJCFBody when the DOF labels a tree edge:
\* emitting the bodies of a description from_onshape returned never ends
\* with the unknown-joint-type exception.
C30_JointTypesAccepted ==
  [][pc = "done" => /\ pc' = "bodiesBuilt"
                    /\ err' # "unknown joint type"
                    /\ \A i \in TreeDofs :
                         \E k \in 1..Len(bodies') :
                           /\ bodies'[k].joint # NoJoint
                           /\ bodies'[k].joint.name = dofs[i].name]_vars

====
